---- MODULE Spec2Model ----
(***************************************************************************)
(* A model of the site-rendering core of the note renderer:                *)
(*   - the scoped worker pool            (src/src/parallel.rs)             *)
(*   - the batch build, render_site      (src/src/core.rs)                 *)
(*   - path sanitizing and resolution    (src/src/core.rs)                 *)
(*   - the server's resource handler     (src/src/serve.rs)                *)
(*   - the debounced filesystem watch    (src/src/watch.rs)                *)
(*   - the Markdown event adapters       (src/src/markdown/*.rs)           *)
(*   - the adapters chained by render    (src/src/markdown/mod.rs)         *)
(*   - the server's shared context       (src/src/serve.rs, core.rs)       *)
(*   - the watch's broadcast channel     (src/src/watch.rs, serve.rs)      *)
(* Every component has its own specification; the variables of the other   *)
(* components stay at their idle values in it.                             *)
(***************************************************************************)
EXTENDS Integers, Sequences, FiniteSets, TLC

VARIABLES
    \* ---- worker pool (parallel.rs)
    thread_count,   \* number of worker threads of the scope
    chan_size,      \* capacity of the bounded channel
    queue,          \* the channel's buffer: task ids, oldest first
    tx,             \* TRUE while the ThreadPool (the only Sender) is alive
    worker,         \* worker -> [st: "recv" | "run" | "exit", task]
    ran,            \* task id -> how many times the task has been run to completion
    nSpawned,       \* how many times the body has called spawn
    pending,        \* the task a spawn call is sending (0: none)
    scopePc,        \* "remove" | "body" | "send" | "join" | "returned" | "panicked"
    \* ---- render_site (core.rs), run inside the worker pool
    src_dir,        \* Context.src_dir, as it was given to Context::new
    listed,         \* a whole read_resources() listing: None, or [some |-> resources]
    walk,           \* the resources read_resources has still to yield
    dest,           \* the destination tree: a set of [path, kind, content, of, by]
    notes,          \* task id -> the source path of the note the task renders
    writes,         \* history: [path, by] for every path a thread wrote (0: the walking thread)
    logged,         \* the tasks that printed "error rendering note"
    site_result,    \* what the body returned: None, or Some("Ok" | "Err")
    src_changed,    \* the source files the build has truncated or written to
    failed_at,      \* the operation of the walking thread that failed, if any
    \* ---- sanitize_path / resolve_resource (core.rs)
    reqPath,        \* the requested path string (a sequence of characters)
    fs,             \* the source tree: [files, dirs], paths relative to src_dir
    comps,          \* components of reqPath not yet visited by sanitize_path
    path_buf,       \* sanitize_path's accumulator
    sanitized,      \* sanitize_path's result: None, or [some |-> path]
    resource,       \* resolve_resource's result: None, or [kind, path]
    resPc,          \* "sanitize" | "resolve" | "done" | "off"
    \* ---- the resource handler (serve.rs)
    response,       \* the response to the request: None, or [some |-> [status, body]]
    \* ---- watch (watch.rs)
    now,            \* the monotonic clock, in milliseconds
    last_event,     \* Handler.last_event
    subscribers,    \* subscriber -> number of signals it has received
    handled,        \* history: one record per notification handled
    res,            \* the notification of the last handle_event call (None: no call yet)
    \* ---- Markdown adapters (markdown/*.rs)
    src,            \* the whole upstream event sequence (the parser's output)
    iter,           \* the upstream events not yet pulled
    buffer,         \* AddHeadingIds.buffer
    entries,        \* the caller's Vec<TocEntry>
    in_heading,     \* TableOfContents.in_heading
    out,            \* the events the adapter has returned from next()
    buffered,       \* history: positions of src that were ever put in buffer
    staged,         \* history of the chain: what each inner stage returned, call by call
    page_title,     \* render_note: the title it has derived (None: none, or not yet)
    mdPc,           \* "ids" | "toc" | "links" | "chain" | "end" | "titled" | "panic" | "off"
    \* ---- the shared context of the server (serve.rs, core.rs)
    ctx_lock,       \* the RwLock around the Context: readers, writer (0: none), poisoned
    tmpls,          \* Context.tmpls: the names of the templates in the registry
    to_add,         \* the templates reload_templates has still to add
    handler,        \* handler[r]: where the resource handler of request r is
    observed,       \* history: the registries that renders have read
    \* ---- the broadcast channel of the watch (watch.rs, serve.rs)
    tail,           \* the number of values sent on the channel so far
    send_result,    \* what the last channel.send returned (None: no send yet)
    receivers,      \* receivers[i]: [since: the tail when it subscribed, next: the
                    \* position it reads next, items: what its stream has yielded]
    \* ---- ignore_path on its own (watch.rs)
    handler_bases,  \* Handler.bases
    event_path,     \* the path ignore_path was called with (None: not yet)
    ignored         \* what it returned

poolVars == <<thread_count, chan_size, queue, tx, worker, ran, nSpawned, pending, scopePc>>
siteVars == <<src_dir, listed, walk, dest, notes, writes, logged, site_result, src_changed,
              failed_at>>
pathVars == <<reqPath, fs, comps, path_buf, sanitized, resource, resPc>>
serveVars == <<response>>
watchVars == <<now, last_event, subscribers, handled, res>>
mdVars == <<src, iter, buffer, entries, in_heading, out, buffered, staged, page_title,
           mdPc>>
ctxVars == <<ctx_lock, tmpls, to_add, handler, observed>>
chanVars == <<tail, send_result, receivers>>
ignVars == <<handler_bases, event_path, ignored>>
vars == <<poolVars, siteVars, pathVars, serveVars, watchVars, mdVars, ctxVars, chanVars,
          ignVars>>

None == [none |-> TRUE]
Some(x) == [some |-> x]

(***************************************************************************)
(* Bounds of the model.                                                    *)
(***************************************************************************)
MaxThreads == 2
MaxChan == 2
MaxTasks == 4

(***************************************************************************)
(* Idle values: what a component's variables hold in the specifications of *)
(* the other components.                                                   *)
(***************************************************************************)
PoolIdle ==
    /\ thread_count = 0 /\ chan_size = 0 /\ queue = <<>> /\ tx = FALSE
    /\ worker = <<>> /\ ran = <<>> /\ nSpawned = 0 /\ pending = 0
    /\ scopePc = "off"

SiteIdle ==
    /\ walk = <<>> /\ dest = {} /\ notes = <<>> /\ writes = {} /\ logged = {}
    /\ site_result = None /\ src_dir = <<>> /\ listed = None /\ src_changed = {}
    /\ failed_at = None

ServeIdle == response = None

PathIdle ==
    /\ reqPath = <<>> /\ fs = [files |-> {}, dirs |-> {}] /\ comps = <<>>
    /\ path_buf = <<>> /\ sanitized = None /\ resource = None /\ resPc = "off"

WatchIdle ==
    /\ now = 0 /\ last_event = 0 /\ subscribers = <<>> /\ handled = <<>>
    /\ res = None

CtxIdle ==
    /\ ctx_lock = [readers |-> {}, writer |-> 0, poisoned |-> FALSE]
    /\ tmpls = {} /\ to_add = <<>> /\ handler = <<>> /\ observed = {}

ChanIdle == tail = 0 /\ send_result = None /\ receivers = <<>>

IgnIdle == handler_bases = <<>> /\ event_path = None /\ ignored = None

MdIdle ==
    /\ src = <<>> /\ iter = <<>> /\ buffer = <<>> /\ entries = <<>>
    /\ in_heading = FALSE /\ out = <<>> /\ buffered = {} /\ staged = <<>>
    /\ page_title = None /\ mdPc = "off"

(***************************************************************************)
(* The worker pool: parallel::scope_with_sizes and ThreadPool::spawn.      *)
(***************************************************************************)
Workers == 1..thread_count

\* scope_with_sizes up to the call of body_fn: the asserts on the two sizes,
\* the bounded channel, and thread_count workers, each blocked in recv().
\* scope_with_threads calls it with chan_size = 2 * thread_count.
InitPool ==
    /\ thread_count \in 1..MaxThreads
    /\ chan_size \in 1..MaxChan
    /\ queue = <<>>
    /\ tx = TRUE
    /\ worker = [w \in 1..thread_count |-> [st |-> "recv", task |-> 0]]
    /\ ran = [t \in 1..MaxTasks |-> 0]
    /\ nSpawned = 0
    /\ pending = 0
    /\ scopePc = "body"
    /\ SiteIdle /\ PathIdle /\ ServeIdle /\ IgnIdle /\ CtxIdle /\ ChanIdle /\ WatchIdle /\ MdIdle

\* The body calls pool.spawn(func): the call is now in tx.send(func).
BodySpawn ==
    /\ scopePc = "body"
    /\ nSpawned < MaxTasks
    /\ nSpawned' = nSpawned + 1
    /\ pending' = nSpawned + 1
    /\ scopePc' = "send"
    /\ UNCHANGED <<thread_count, chan_size, queue, tx, worker, ran>>
    /\ UNCHANGED <<siteVars, pathVars, serveVars, watchVars, mdVars, ctxVars, chanVars, ignVars>>

\* A mutant of SendComplete: a send that never waits for a free slot.
SendCompleteUnbounded ==
    /\ scopePc = "send"
    /\ queue' = Append(queue, pending)
    /\ pending' = 0
    /\ scopePc' = "body"
    /\ UNCHANGED <<thread_count, chan_size, tx, worker, ran, nSpawned>>
    /\ UNCHANGED <<siteVars, pathVars, serveVars, watchVars, mdVars, ctxVars, chanVars, ignVars>>

\* tx.send(func) on a bounded channel: it returns once the message is in the
\* buffer, and waits while the buffer holds chan_size messages.
SendComplete ==
    /\ scopePc = "send"
    /\ Len(queue) < chan_size
    /\ queue' = Append(queue, pending)
    /\ pending' = 0
    /\ scopePc' = "body"
    /\ UNCHANGED <<thread_count, chan_size, tx, worker, ran, nSpawned>>
    /\ UNCHANGED <<siteVars, pathVars, serveVars, watchVars, mdVars, ctxVars, chanVars, ignVars>>

\* body_fn returns: the ThreadPool it was given by value is dropped, and with
\* it the only Sender; thread::scope then joins the workers.
BodyReturn ==
    /\ scopePc = "body"
    /\ tx' = FALSE
    /\ scopePc' = "join"
    /\ UNCHANGED <<thread_count, chan_size, queue, worker, ran, nSpawned, pending>>
    /\ UNCHANGED <<siteVars, pathVars, serveVars, watchVars, mdVars, ctxVars, chanVars, ignVars>>

\* A mutant of WorkerRecv: the message is read but left in the channel.
WorkerRecvPeek(w) ==
    /\ worker[w].st = "recv"
    /\ queue # <<>>
    /\ worker' = [worker EXCEPT ![w] = [st |-> "run", task |-> Head(queue)]]
    /\ UNCHANGED <<thread_count, chan_size, queue, tx, ran, nSpawned, pending, scopePc>>
    /\ UNCHANGED <<siteVars, pathVars, serveVars, watchVars, mdVars, ctxVars, chanVars, ignVars>>

\* thread_rx.recv() returns Ok(func): the worker takes the oldest message.
WorkerRecv(w) ==
    /\ worker[w].st = "recv"
    /\ queue # <<>>
    /\ worker' = [worker EXCEPT ![w] = [st |-> "run", task |-> Head(queue)]]
    /\ queue' = Tail(queue)
    /\ UNCHANGED <<thread_count, chan_size, tx, ran, nSpawned, pending, scopePc>>
    /\ UNCHANGED <<siteVars, pathVars, serveVars, watchVars, mdVars, ctxVars, chanVars, ignVars>>

\* func() returns: the worker loops back to recv().
WorkerFinish(w) ==
    /\ worker[w].st = "run"
    /\ ran' = [ran EXCEPT ![worker[w].task] = @ + 1]
    /\ worker' = [worker EXCEPT ![w] = [st |-> "recv", task |-> 0]]
    /\ UNCHANGED <<thread_count, chan_size, queue, tx, nSpawned, pending, scopePc>>
    /\ UNCHANGED <<siteVars, pathVars, serveVars, watchVars, mdVars, ctxVars, chanVars, ignVars>>

\* A mutant of RecvDisconnected: a recv that fails as soon as the sender is gone.
RecvDisconnectedNoDrain == ~tx

\* thread_rx.recv() returns Err: the channel is empty and every Sender is gone.
RecvDisconnected == queue = <<>> /\ ~tx

\* The `while let Ok(func)` loop ends and the worker thread finishes.
WorkerExit(w) ==
    /\ worker[w].st = "recv"
    /\ RecvDisconnected
    /\ worker' = [worker EXCEPT ![w] = [st |-> "exit", task |-> 0]]
    /\ UNCHANGED <<thread_count, chan_size, queue, tx, ran, nSpawned, pending, scopePc>>
    /\ UNCHANGED <<siteVars, pathVars, serveVars, watchVars, mdVars, ctxVars, chanVars, ignVars>>

\* thread::scope returns once every thread spawned in it has finished.
ScopeReturn ==
    /\ scopePc = "join"
    /\ \A w \in Workers : worker[w].st = "exit"
    /\ scopePc' = "returned"
    /\ UNCHANGED <<thread_count, chan_size, queue, tx, worker, ran, nSpawned, pending>>
    /\ UNCHANGED <<siteVars, pathVars, serveVars, watchVars, mdVars, ctxVars, chanVars, ignVars>>

NextPool ==
    \/ BodySpawn
    \/ SendComplete
    \/ BodyReturn
    \/ \E w \in Workers : WorkerRecv(w)
    \/ \E w \in Workers : WorkerFinish(w)
    \/ \E w \in Workers : WorkerExit(w)
    \/ ScopeReturn

SpecPool == InitPool /\ [][NextPool]_vars

\* The tasks whose send has completed.
Submitted == 1..(nSpawned - (IF pending # 0 THEN 1 ELSE 0))
Running == {worker[w].task : w \in {v \in Workers : worker[v].st = "run"}}
Queued == {queue[i] : i \in 1..Len(queue)}

\* C1: when the scope has returned, every task passed to spawn during the body
\* has been run to completion (exactly once), whatever the sizes and the
\* interleaving of the workers and the submitter.
C1_AllTasksCompleteOnReturn ==
    scopePc = "returned" =>
        /\ pending = 0
        /\ queue = <<>>
        /\ \A t \in 1..nSpawned : ran[t] = 1

\* C1 witness: the scope has returned after more tasks than the channel holds.
C1_Witness ==
    /\ scopePc = "returned"
    /\ nSpawned = MaxTasks
    /\ nSpawned > chan_size + thread_count
    /\ \A t \in 1..nSpawned : ran[t] = 1

C32_Busy == {w \in Workers : worker[w].st = "run"}

\* No task is executed by two workers or a second time, and no more tasks are
\* executing than there are workers.
C32_OneWorkerPerTask ==
    /\ Cardinality(C32_Busy) <= thread_count
    /\ \A v, w \in C32_Busy : v # w => worker[v].task # worker[w].task
    /\ \A w \in C32_Busy : worker[w].task \in Submitted /\ ran[worker[w].task] = 0
    /\ \A t \in 1..MaxTasks : ran[t] <= 1
    /\ \A t \in Submitted : ran[t] = 1 \/ t \in Queued \cup Running

\* A step of a busy worker is the end of its task; a task leaves the queue to
\* one idle worker, oldest first; a worker stops with no sender and an empty
\* queue.
C32_WorkerStep ==
    /\ \A w \in Workers :
          (worker[w].st = "run" /\ worker'[w] # worker[w]) =>
              /\ worker'[w].st = "recv"
              /\ ran' = [ran EXCEPT ![worker[w].task] = 1]
              /\ queue' = queue
    /\ Len(queue') < Len(queue) =>
          /\ queue' = Tail(queue)
          /\ Cardinality({w \in Workers : worker'[w] # worker[w]}) = 1
          /\ \E w \in Workers :
                /\ worker[w].st = "recv"
                /\ worker'[w] = [st |-> "run", task |-> Head(queue)]
    /\ \A w \in Workers :
          (worker[w].st # "exit" /\ worker'[w].st = "exit") =>
              worker[w].st = "recv" /\ queue = <<>> /\ ~tx

MaxPathLen == 5
MaxReqLen == 3

\* All strings of at most n characters of the alphabet.
BoundedStrings(alphabet, n) == UNION {[1..k -> alphabet] : k \in 0..n}

\* The string split at every "/" (empty pieces included).
RECURSIVE Segments(_)
Segments(s) ==
    IF s = <<>> THEN << <<>> >>
    ELSE LET rest == Segments(Tail(s)) IN
         IF Head(s) = "/" THEN << <<>> >> \o rest
         ELSE << <<Head(s)>> \o Head(rest) >> \o Tail(rest)

RootDir == [kind |-> "RootDir", name |-> <<>>]
CurDir == [kind |-> "CurDir", name |-> <<>>]
ParentDir == [kind |-> "ParentDir", name |-> <<>>]
Normal(n) == [kind |-> "Normal", name |-> n]

\* std::path::Components after the root, on Unix: empty pieces and "." are
\* skipped, except a "." that starts a path without a root; ".." is ParentDir.
RECURSIVE BodyComponents(_, _, _)
BodyComponents(segs, i, has_root) ==
    IF i > Len(segs) THEN <<>>
    ELSE LET seg == segs[i]
             c == IF seg = <<>> THEN <<>>
                  ELSE IF seg = <<".">>
                       THEN (IF i = 1 /\ ~has_root THEN <<CurDir>> ELSE <<>>)
                  ELSE IF seg = <<".", ".">> THEN <<ParentDir>>
                  ELSE <<Normal(seg)>>
         IN  c \o BodyComponents(segs, i + 1, has_root)

\* Path::new(path).components() on Unix (no Prefix component exists there).
Components(s) ==
    LET has_root == s # <<>> /\ s[1] = "/" IN
    (IF has_root THEN <<RootDir>> ELSE <<>>) \o BodyComponents(Segments(s), 1, has_root)

\* A mutant of ignore_filename: only hidden (dot) names are ignored.
ignore_filename_dot_only(name) ==
    name # <<".">> /\ name # <<>> /\ name[1] = "."

\* ignore_filename: a name other than "." that starts with ".", or one that
\* starts with "_".
ignore_filename(name) ==
    \/ name # <<".">> /\ name # <<>> /\ name[1] = "."
    \/ name # <<>> /\ name[1] = "_"

\* A mutant of Push: the piece is appended without a separator.
PushNoSeparator(buf, c) == buf \o c

\* PathBuf::push of a relative piece: a separator is added unless the buffer
\* is empty or already ends with one.
Push(buf, c) ==
    IF buf = <<>> \/ buf[Len(buf)] = "/" THEN buf \o c ELSE buf \o <<"/">> \o c

\* Path::join of a relative piece: a clone, then push (an empty piece still
\* adds the separator).
Join(base, rel) == IF base[Len(base)] = "/" THEN base \o rel ELSE base \o <<"/">> \o rel

\* Path::file_name: the last component when it is a Normal one.
FileName(p) ==
    LET cs == Components(p) IN
    IF cs # <<>> /\ cs[Len(cs)].kind = "Normal" THEN Some(cs[Len(cs)].name) ELSE None

\* The position of the last "." of a name (0: none).
LastDot(n) ==
    LET dots == {i \in 1..Len(n) : n[i] = "."} IN
    IF dots = {} THEN 0 ELSE CHOOSE i \in dots : \A j \in dots : j <= i

\* Path::extension: what follows the last "." of the file name, when that "."
\* is not the name's first character.
Extension(p) ==
    LET f == FileName(p) IN
    IF f = None THEN None
    ELSE LET d == LastDot(f.some) IN
         IF d <= 1 THEN None ELSE Some(SubSeq(f.some, d + 1, Len(f.some)))

\* PathBuf::set_extension on a path that does not end with a separator: the
\* path is cut after the file stem and "." and the extension are appended; a
\* path without a file name is left as it is.
SetExtension(p, ext) ==
    LET f == FileName(p) IN
    IF f = None THEN p
    ELSE LET d == LastDot(f.some)
             stemLen == IF d <= 1 THEN Len(f.some) ELSE d - 1
         IN  SubSeq(p, 1, Len(p) - Len(f.some) + stemLen) \o <<".">> \o ext

\* Context.src_dir.
SrcDir == <<"notes">>

\* The names of a path below src_dir, as the file system sees them (None for a
\* path that is not under src_dir or that climbs with "..").
Below(p) ==
    LET cs == Components(p)
        bs == Components(SrcDir)
    IN  IF /\ Len(cs) >= Len(bs)
           /\ SubSeq(cs, 1, Len(bs)) = bs
           /\ \A i \in 1..Len(cs) : cs[i].kind = "Normal"
        THEN Some([i \in 1..(Len(cs) - Len(bs)) |-> cs[Len(bs) + i].name])
        ELSE None

\* Path::is_file and Path::is_dir against the source tree.
IsFile(p) == Below(p) # None /\ Below(p).some \in fs.files
IsDir(p) == Below(p) # None /\ (Below(p).some = <<>> \/ Below(p).some \in fs.dirs)

Static(p) == Some([kind |-> "Static", path |-> p])
Directory(p) == Some([kind |-> "Directory", path |-> p])
Note(p) == Some([kind |-> "Note", path |-> p])

HTML == <<"html">>
MD == <<"md">>

\* ---- sanitize_path, one component of the loop at a time

\* Component::Normal(c) with a name that is not ignored: path_buf.push(c).
SanitizeNormal ==
    /\ resPc = "sanitize" /\ comps # <<>>
    /\ Head(comps).kind = "Normal" /\ ~ignore_filename(Head(comps).name)
    /\ path_buf' = Push(path_buf, Head(comps).name)
    /\ comps' = Tail(comps)
    /\ UNCHANGED <<reqPath, fs, sanitized, resource, resPc>>
    /\ UNCHANGED <<poolVars, siteVars, serveVars, watchVars, mdVars, ctxVars, chanVars, ignVars>>

\* Component::RootDir and Component::CurDir: nothing is pushed.
SanitizeSkip ==
    /\ resPc = "sanitize" /\ comps # <<>>
    /\ Head(comps).kind \in {"RootDir", "CurDir"}
    /\ comps' = Tail(comps)
    /\ UNCHANGED <<reqPath, fs, path_buf, sanitized, resource, resPc>>
    /\ UNCHANGED <<poolVars, siteVars, serveVars, watchVars, mdVars, ctxVars, chanVars, ignVars>>

\* The components for which sanitize_path returns None: an ignored name,
\* ParentDir, Prefix.
Disallowed(c) ==
    \/ c.kind = "Normal" /\ ignore_filename(c.name)
    \/ c.kind \in {"ParentDir", "Prefix"}

\* `return None`; in resolve_resource the `?` returns None in turn.
SanitizeReject ==
    /\ resPc = "sanitize" /\ comps # <<>>
    /\ Disallowed(Head(comps))
    /\ sanitized' = None
    /\ resource' = None
    /\ resPc' = "done"
    /\ UNCHANGED <<reqPath, fs, comps, path_buf>>
    /\ UNCHANGED <<poolVars, siteVars, serveVars, watchVars, mdVars, ctxVars, chanVars, ignVars>>

\* The loop is over: Some(path_buf).
SanitizeReturn ==
    /\ resPc = "sanitize" /\ comps = <<>>
    /\ sanitized' = Some(path_buf)
    /\ resPc' = "resolve"
    /\ UNCHANGED <<reqPath, fs, comps, path_buf, resource>>
    /\ UNCHANGED <<poolVars, siteVars, serveVars, watchVars, mdVars, ctxVars, chanVars, ignVars>>

NextSanitize ==
    \/ SanitizeNormal
    \/ SanitizeSkip
    \/ SanitizeReject
    \/ SanitizeReturn


\* ---- resolve_resource after `sanitize_path(rel_path)?`

\* src_path = self.src_dir.join(&rel_path)
SrcPath == Join(SrcDir, sanitized.some)

\* The note behind an HTML path: rel_path has the extension "html" and
\* src_path with the extension "md" is a file.
NotePath == SetExtension(SrcPath, MD)
HasNote == Extension(sanitized.some) = Some(HTML) /\ IsFile(NotePath)

\* A mutant of ResolveStatic: the note behind an HTML path wins over the file.
ResolveStaticNoteFirst ==
    /\ resPc = "resolve"
    /\ IsFile(SrcPath)
    /\ resource' = IF HasNote THEN Note(NotePath) ELSE Static(SrcPath)
    /\ resPc' = "done"
    /\ UNCHANGED <<reqPath, fs, comps, path_buf, sanitized>>
    /\ UNCHANGED <<poolVars, siteVars, serveVars, watchVars, mdVars, ctxVars, chanVars, ignVars>>

\* src_path.is_file(): Static(src_path).
ResolveStatic ==
    /\ resPc = "resolve"
    /\ IsFile(SrcPath)
    /\ resource' = Static(SrcPath)
    /\ resPc' = "done"
    /\ UNCHANGED <<reqPath, fs, comps, path_buf, sanitized>>
    /\ UNCHANGED <<poolVars, siteVars, serveVars, watchVars, mdVars, ctxVars, chanVars, ignVars>>

\* else src_path.is_dir(): Directory(src_path).
ResolveDirectory ==
    /\ resPc = "resolve"
    /\ ~IsFile(SrcPath) /\ IsDir(SrcPath)
    /\ resource' = Directory(SrcPath)
    /\ resPc' = "done"
    /\ UNCHANGED <<reqPath, fs, comps, path_buf, sanitized>>
    /\ UNCHANGED <<poolVars, siteVars, serveVars, watchVars, mdVars, ctxVars, chanVars, ignVars>>

\* else the extension is "html" and the ".md" path is a file: Note(that path).
ResolveNote ==
    /\ resPc = "resolve"
    /\ ~IsFile(SrcPath) /\ ~IsDir(SrcPath)
    /\ HasNote
    /\ resource' = Note(NotePath)
    /\ resPc' = "done"
    /\ UNCHANGED <<reqPath, fs, comps, path_buf, sanitized>>
    /\ UNCHANGED <<poolVars, siteVars, serveVars, watchVars, mdVars, ctxVars, chanVars, ignVars>>

\* Not found.
ResolveNone ==
    /\ resPc = "resolve"
    /\ ~IsFile(SrcPath) /\ ~IsDir(SrcPath)
    /\ ~HasNote
    /\ resource' = None
    /\ resPc' = "done"
    /\ UNCHANGED <<reqPath, fs, comps, path_buf, sanitized>>
    /\ UNCHANGED <<poolVars, siteVars, serveVars, watchVars, mdVars, ctxVars, chanVars, ignVars>>

NextResolve ==
    \/ NextSanitize
    \/ ResolveStatic
    \/ ResolveDirectory
    \/ ResolveNote
    \/ ResolveNone

\* The paths of the unit tests of core.rs and of the specification's examples.
ExamplePaths ==
    { <<"/", "hi", ".", "txt">>,
      <<"hi", ".", "txt">>,
      <<"/", "dir", "/", "hi", ".", "txt">>,
      <<"/", ".", ".", "/", "hi", ".", "txt">>,
      <<".", "hi", ".", "txt">>,
      <<"_", "hi", ".", "txt">>,
      <<"foo", "/", "_", "bar", "/", "hi", ".", "txt">> }

PathChars == {"/", ".", "_", "a", "html"}

\* sanitize_path alone, on every short string and on the examples.
InitSanitize ==
    /\ reqPath \in BoundedStrings(PathChars, MaxPathLen) \cup ExamplePaths
    /\ fs = [files |-> {}, dirs |-> {}]
    /\ comps = Components(reqPath)
    /\ path_buf = <<>>
    /\ sanitized = None
    /\ resource = None
    /\ resPc = "sanitize"
    /\ PoolIdle /\ SiteIdle /\ ServeIdle /\ IgnIdle /\ CtxIdle /\ ChanIdle /\ WatchIdle /\ MdIdle

SpecSanitize == InitSanitize /\ [][NextSanitize]_vars

\* The source trees of the model: files and directories below src_dir, each
\* a sequence of names. A path is a file or a directory, not both, and the
\* parent of an entry is a directory.
FOO == <<"foo">>
FOO_HTML == <<"foo", ".", "html">>
FOO_MD == <<"foo", ".", "md">>
PRIVATE == <<"_", "foo">>
FsFiles == { <<FOO_HTML>>, <<FOO_MD>>, <<FOO, FOO_MD>>, <<PRIVATE>> }
FsDirs == { <<FOO>>, <<FOO_HTML>> }
SourceTrees ==
    { t \in [files : SUBSET FsFiles, dirs : SUBSET FsDirs] :
        /\ t.files \cap t.dirs = {}
        /\ \A f \in t.files : Len(f) > 1 => SubSeq(f, 1, Len(f) - 1) \in t.dirs }

ReqChars == {"/", ".", "_", "foo", "html", "md"}
ExampleRequests ==
    { <<"foo", "/", "foo", ".", "html">>,
      <<"/", "foo", ".", "html">>,
      <<".", ".", "/", "foo", ".", "md">>,
      <<"foo", ".", "html", "/">> }

\* resolve_resource on a request path against a source tree.
InitResolve ==
    /\ reqPath \in BoundedStrings(ReqChars, MaxReqLen) \cup ExampleRequests
    /\ fs \in SourceTrees
    /\ comps = Components(reqPath)
    /\ path_buf = <<>>
    /\ sanitized = None
    /\ resource = None
    /\ resPc = "sanitize"
    /\ PoolIdle /\ SiteIdle /\ ServeIdle /\ IgnIdle /\ CtxIdle /\ ChanIdle /\ WatchIdle /\ MdIdle

SpecResolve == InitResolve /\ [][NextResolve]_vars


(***************************************************************************)
(* The resource handler of the server (serve.rs): resolve_resource on the   *)
(* request path, then one response. The route "/{*path}" hands the handler  *)
(* the path after the first "/", which is never empty.                     *)
(***************************************************************************)
Response(status, body) == Some([status |-> status, body |-> body])

\* Some(Resource::Note(src_path)) and render_note returns Ok(()): Html(buf).
ServeNoteRendered ==
    /\ resPc = "done" /\ response = None
    /\ resource # None /\ resource.some.kind = "Note"
    /\ response' = Response("OK", "html")
    /\ UNCHANGED <<pathVars, poolVars, siteVars, watchVars, mdVars, ctxVars, chanVars, ignVars>>

\* Some(Resource::Note(src_path)) and render_note returns Err(e) (the note
\* cannot be read, or the template fails): 500 "note rendering failed".
ServeNoteFailed ==
    /\ resPc = "done" /\ response = None
    /\ resource # None /\ resource.some.kind = "Note"
    /\ response' = Response("INTERNAL_SERVER_ERROR", "note rendering failed")
    /\ UNCHANGED <<pathVars, poolVars, siteVars, watchVars, mdVars, ctxVars, chanVars, ignVars>>

\* Some(Resource::Static(src_path)), and send_file opens the file: its bytes.
ServeStaticSent ==
    /\ resPc = "done" /\ response = None
    /\ resource # None /\ resource.some.kind = "Static"
    /\ response' = Response("OK", "bytes")
    /\ UNCHANGED <<pathVars, poolVars, siteVars, watchVars, mdVars, ctxVars, chanVars, ignVars>>

\* Some(Resource::Static(src_path)), and File::open in send_file fails (the
\* file is not readable, or is gone since resolution): 404 "not found: ...".
ServeStaticOpenFailed ==
    /\ resPc = "done" /\ response = None
    /\ resource # None /\ resource.some.kind = "Static"
    /\ response' = Response("NOT_FOUND", "not found")
    /\ UNCHANGED <<pathVars, poolVars, siteVars, watchVars, mdVars, ctxVars, chanVars, ignVars>>

\* A handler that answers a directory as if nothing was found.
ServeDirectoryNotFound ==
    /\ resPc = "done" /\ response = None
    /\ resource # None /\ resource.some.kind = "Directory"
    /\ response' = Response("NOT_FOUND", "not found")
    /\ UNCHANGED <<pathVars, poolVars, siteVars, watchVars, mdVars, ctxVars, chanVars, ignVars>>

\* Some(Resource::Directory(_)): 501 "directory listings not implemented".
ServeDirectory ==
    /\ resPc = "done" /\ response = None
    /\ resource # None /\ resource.some.kind = "Directory"
    /\ response' = Response("NOT_IMPLEMENTED", "directory listings not implemented")
    /\ UNCHANGED <<pathVars, poolVars, siteVars, watchVars, mdVars, ctxVars, chanVars, ignVars>>

\* None: 404 "not found".
ServeNotFound ==
    /\ resPc = "done" /\ response = None
    /\ resource = None
    /\ response' = Response("NOT_FOUND", "not found")
    /\ UNCHANGED <<pathVars, poolVars, siteVars, watchVars, mdVars, ctxVars, chanVars, ignVars>>

NextServe ==
    \/ NextResolve
    \/ ServeNoteRendered
    \/ ServeNoteFailed
    \/ ServeStaticSent
    \/ ServeStaticOpenFailed
    \/ ServeDirectory
    \/ ServeNotFound

\* A GET request for a path against a source tree.
InitServe == InitResolve /\ reqPath # <<>>

SpecServe == InitServe /\ [][NextServe]_vars

\* The request was rejected by the sanitizer.
C14_Rejected == \E i \in 1..Len(Components(reqPath)) : Disallowed(Components(reqPath)[i])

PathPieces(s) == SelectSeq(Segments(s), LAMBDA x : x # <<>>)

\* A piece that must never appear in a sanitized path.
UnsafePiece(x) == x = <<".", ".">> \/ x[1] = "." \/ x[1] = "_"

\* A path string that lies under src_dir: it starts with src_dir's own text
\* followed by a separator, and no piece after that is "..", hidden or private.
UnderSrcDir(p) ==
    /\ Len(p) > Len(SrcDir)
    /\ SubSeq(p, 1, Len(SrcDir)) = SrcDir
    /\ p[Len(SrcDir) + 1] = "/"
    /\ LET below == PathPieces(SubSeq(p, Len(SrcDir) + 2, Len(p)))
       IN  \A i \in 1..Len(below) : ~UnsafePiece(below[i])

\* C2: a path returned by sanitize_path has no root, no "..", and no ignored
\* component, so joined to src_dir it stays under src_dir; and every Resource
\* resolve_resource returns (Static, Directory, Note) lies under src_dir with
\* no ignored component below it.
C2_SanitizedNeverEscapes ==
    /\ sanitized # None =>
         /\ sanitized.some = <<>> \/ sanitized.some[1] # "/"
         /\ \A i \in 1..Len(PathPieces(sanitized.some)) :
              ~UnsafePiece(PathPieces(sanitized.some)[i])
         /\ UnderSrcDir(Join(SrcDir, sanitized.some))
    /\ resource # None => UnderSrcDir(resource.some.path)

\* C2 witness: a rooted request has resolved to a note under src_dir.
C2_Witness ==
    /\ resPc = "done"
    /\ reqPath = <<"/", "foo", ".", "html">>
    /\ resource = Note(<<"notes", "/", "foo", ".", "md">>)

\* What C3 expects of a finished resolution of the sanitized names `rel`.
C3_Expected(rel) ==
    LET path == Join(SrcDir, sanitized.some)
        last == IF rel = <<>> THEN <<>> ELSE rel[Len(rel)]
        isHtml == Len(last) >= 2 /\ last[Len(last)] = "html" /\ last[Len(last) - 1] = "."
        mdRel == [rel EXCEPT ![Len(rel)] = SubSeq(last, 1, Len(last) - 1) \o <<"md">>]
    IN  IF rel \in fs.files THEN Static(path)
        ELSE IF rel = <<>> \/ rel \in fs.dirs THEN Directory(path)
        ELSE IF isHtml /\ mdRel \in fs.files
             THEN Note(SubSeq(path, 1, Len(path) - 1) \o <<"md">>)
        ELSE None

\* C3: resolution decides in a fixed order: Static if root/p is a file, else
\* Directory if it is a directory, else Note(root/p with .md) if p ends in
\* .html and the .md path is a file, else nothing. So foo.html gives
\* Note(foo.md) when only foo.md exists and Static(foo.html) whenever foo.html
\* is a file, even if foo.md exists too.
C3_ResolutionOrder ==
    (resPc = "done" /\ sanitized # None) =>
        /\ resource = C3_Expected(PathPieces(sanitized.some))
        /\ (reqPath = FOO_HTML /\ <<FOO_MD>> \in fs.files
              /\ <<FOO_HTML>> \notin fs.files \cup fs.dirs)
             => resource = Note(<<"notes", "/", "foo", ".", "md">>)
        /\ (reqPath = FOO_HTML /\ <<FOO_HTML>> \in fs.files)
             => resource = Static(<<"notes", "/", "foo", ".", "html">>)

\* C3 witness: foo.html and foo.md both exist and the request for foo.html
\* has resolved to the static file.
C3_Witness ==
    /\ resPc = "done"
    /\ reqPath = FOO_HTML
    /\ {<<FOO_HTML>>, <<FOO_MD>>} \subseteq fs.files
    /\ resource = Static(<<"notes", "/", "foo", ".", "html">>)

\* The end of the piece of s that starts at i.
C6_PieceEnd(s, i) ==
    CHOOSE j \in i..Len(s) :
        /\ \A k \in i..j : s[k] # "/"
        /\ j = Len(s) \/ s[j + 1] = "/"

\* Some piece of s is "..", or starts with "." without being ".", or starts
\* with "_".
C6_HasRejectedPiece(s) ==
    \E i \in 1..Len(s) :
        /\ s[i] # "/"
        /\ i = 1 \/ s[i - 1] = "/"
        /\ \/ s[i] = "_"
           \/ s[i] = "." /\ C6_PieceEnd(s, i) > i

\* The pieces of s from position i on, without the "." pieces, joined by "/".
RECURSIVE C6_Joined(_, _)
C6_Joined(s, i) ==
    IF i > Len(s) THEN <<>>
    ELSE IF s[i] = "/" THEN C6_Joined(s, i + 1)
    ELSE LET j == C6_PieceEnd(s, i)
             piece == SubSeq(s, i, j)
             rest == C6_Joined(s, j + 1)
         IN  IF piece = <<".">> THEN rest
             ELSE IF rest = <<>> THEN piece
             ELSE piece \o <<"/">> \o rest

\* C6: sanitize_path returns no result exactly when some component of the
\* input is "..", or a name that starts with "." or "_"; otherwise it returns
\* the names in order, joined, without the leading root and the "."
\* components. The examples of the unit tests are among the inputs.
C6_SanitizeExact ==
    resPc \in {"resolve", "done"} =>
        /\ (sanitized = None) = C6_HasRejectedPiece(reqPath)
        /\ sanitized # None => sanitized.some = C6_Joined(reqPath, 1)
        /\ reqPath = <<"/", "hi", ".", "txt">> => sanitized = Some(<<"hi", ".", "txt">>)
        /\ reqPath = <<"/", "dir", "/", "hi", ".", "txt">>
             => sanitized = Some(<<"dir", "/", "hi", ".", "txt">>)
        /\ reqPath \in { <<"/", ".", ".", "/", "hi", ".", "txt">>,
                         <<".", "hi", ".", "txt">>,
                         <<"_", "hi", ".", "txt">>,
                         <<"foo", "/", "_", "bar", "/", "hi", ".", "txt">> }
             => sanitized = None

\* C6 witness: /dir/hi.txt has been sanitized to dir/hi.txt.
C6_Witness ==
    /\ resPc = "resolve"
    /\ reqPath = <<"/", "dir", "/", "hi", ".", "txt">>
    /\ sanitized = Some(<<"dir", "/", "hi", ".", "txt">>)


(***************************************************************************)
(* The filesystem watch: Watch::new, Watch::stream, Handler::handle_event  *)
(* and ignore_path (watch.rs). Time is the monotonic clock in              *)
(* milliseconds. A path is a sequence of names.                            *)
(***************************************************************************)
DEBOUNCE_INTERVAL == 100
MaxTime == 250
MaxNotifications == 3
MaxSubscribers == 2

\* How far the clock moves between two steps of the model.
TickSteps == {25, 100}

\* Handler.bases: the source directory and the templates directory.
Bases == << << <<"notes">> >>, << <<"templates">> >> >>

\* path.strip_prefix(base): Ok(the rest) when base is a prefix of path.
StripPrefix(path, base) ==
    IF Len(path) >= Len(base) /\ SubSeq(path, 1, Len(base)) = base
    THEN Some(SubSeq(path, Len(base) + 1, Len(path)))
    ELSE None

\* Component::Normal: a name other than "." and "..".
IsNormal(name) == name \notin {<<".">>, <<".", ".">>}

\* ignore_path: the first base that contains the path decides, by the names
\* below it; a path under no base is ignored.
RECURSIVE ignore_path_from(_, _, _)
ignore_path_from(bases, path, b) ==
    IF b > Len(bases) THEN TRUE
    ELSE LET frag == StripPrefix(path, bases[b]) IN
         IF frag = None THEN ignore_path_from(bases, path, b + 1)
         ELSE \E i \in 1..Len(frag.some) :
                 IsNormal(frag.some[i]) /\ ignore_filename(frag.some[i])

ignore_path(bases, path) == ignore_path_from(bases, path, 1)

\* The notifications of the model: an error, or an event with a kind and the
\* paths it affects. Data modifications come with every path list, the other
\* kinds with the path of a note.
NOTE_FILE == << <<"notes">>, <<"a", ".", "md">> >>
PRIVATE_FILE == << <<"notes">>, <<"_", "drafts">>, <<"a", ".", "md">> >>
HIDDEN_FILE == << <<"notes">>, <<".", "git">>, <<"index">> >>
OUTSIDE_FILE == << <<"tmp">>, <<"a", ".", "md">> >>
EventKinds == {"Modify.Data", "Modify.Metadata", "Create", "Remove"}
EventPaths ==
    { <<NOTE_FILE>>, <<PRIVATE_FILE>>, <<HIDDEN_FILE>>, <<OUTSIDE_FILE>>,
      <<NOTE_FILE, PRIVATE_FILE>>, <<>> }
Notifications ==
    {[ok |-> FALSE, kind |-> "", paths |-> <<>>]}
        \cup [ok : {TRUE}, kind : {"Modify.Data"}, paths : EventPaths]
        \cup [ok : {TRUE}, kind : EventKinds, paths : {<<NOTE_FILE>>}]

\* The `if let` chain of handle_event: Ok(event), a Modify(Data) kind, and no
\* path of the event that ignore_path ignores.
Accepted(r) ==
    /\ r.ok
    /\ r.kind = "Modify.Data"
    /\ ~ \E i \in 1..Len(r.paths) : ignore_path(Bases, r.paths[i])

\* Watch::new: the channel has no receiver yet and last_event is the time of
\* construction.
InitWatch ==
    /\ now = 0
    /\ last_event = now
    /\ subscribers = <<>>
    /\ handled = <<>>
    /\ res = None
    /\ PoolIdle /\ SiteIdle /\ PathIdle /\ ServeIdle /\ IgnIdle /\ CtxIdle /\ ChanIdle /\ MdIdle

\* Time passes.
Tick ==
    /\ \E d \in TickSteps :
         /\ now + d <= MaxTime
         /\ now' = now + d
    /\ UNCHANGED <<last_event, subscribers, handled, res>>
    /\ UNCHANGED <<poolVars, siteVars, pathVars, serveVars, mdVars, ctxVars, chanVars, ignVars>>

\* A subscribe that hands the new receiver every signal sent so far.
SubscribeReplay ==
    /\ Len(subscribers) < MaxSubscribers
    /\ subscribers' = Append(subscribers, Len(SelectSeq(handled, LAMBDA h : h.sent)))
    /\ UNCHANGED <<now, last_event, handled, res>>
    /\ UNCHANGED <<poolVars, siteVars, pathVars, serveVars, mdVars, ctxVars, chanVars, ignVars>>

\* Watch::stream: a new receiver, which sees only what is sent from now on.
Subscribe ==
    /\ Len(subscribers) < MaxSubscribers
    /\ subscribers' = Append(subscribers, 0)
    /\ UNCHANGED <<now, last_event, handled, res>>
    /\ UNCHANGED <<poolVars, siteVars, pathVars, serveVars, mdVars, ctxVars, chanVars, ignVars>>

\* A debounce whose window restarts at every notification it drops.
HandleDebouncedSliding ==
    /\ Len(handled) < MaxNotifications
    /\ \E r \in Notifications :
         /\ now - last_event < DEBOUNCE_INTERVAL
         /\ res' = Some(r)
         /\ last_event' = now
         /\ handled' = Append(handled, [t |-> now, debounced |-> TRUE,
                                        accepted |-> Accepted(r), sent |-> FALSE])
    /\ UNCHANGED <<now, subscribers>>
    /\ UNCHANGED <<poolVars, siteVars, pathVars, serveVars, mdVars, ctxVars, chanVars, ignVars>>

\* handle_event inside the window: last_event.elapsed() < DEBOUNCE_INTERVAL,
\* return.
HandleDebounced ==
    /\ Len(handled) < MaxNotifications
    /\ \E r \in Notifications :
         /\ now - last_event < DEBOUNCE_INTERVAL
         /\ res' = Some(r)
         /\ handled' = Append(handled, [t |-> now, debounced |-> TRUE,
                                        accepted |-> Accepted(r), sent |-> FALSE])
    /\ UNCHANGED <<now, last_event, subscribers>>
    /\ UNCHANGED <<poolVars, siteVars, pathVars, serveVars, mdVars, ctxVars, chanVars, ignVars>>

\* A mutant of HandleDiscard: the time of the notification is recorded before
\* the notification is looked at.
HandleDiscardTouching ==
    /\ Len(handled) < MaxNotifications
    /\ \E r \in Notifications :
         /\ ~(now - last_event < DEBOUNCE_INTERVAL)
         /\ ~Accepted(r)
         /\ res' = Some(r)
         /\ last_event' = now
         /\ handled' = Append(handled, [t |-> now, debounced |-> FALSE,
                                        accepted |-> FALSE, sent |-> FALSE])
    /\ UNCHANGED <<now, subscribers>>
    /\ UNCHANGED <<poolVars, siteVars, pathVars, serveVars, mdVars, ctxVars, chanVars, ignVars>>

\* handle_event outside the window, on a notification the `if let` chain
\* does not accept: nothing happens.
HandleDiscard ==
    /\ Len(handled) < MaxNotifications
    /\ \E r \in Notifications :
         /\ ~(now - last_event < DEBOUNCE_INTERVAL)
         /\ ~Accepted(r)
         /\ res' = Some(r)
         /\ handled' = Append(handled, [t |-> now, debounced |-> FALSE,
                                        accepted |-> FALSE, sent |-> FALSE])
    /\ UNCHANGED <<now, last_event, subscribers>>
    /\ UNCHANGED <<poolVars, siteVars, pathVars, serveVars, mdVars, ctxVars, chanVars, ignVars>>

\* handle_event outside the window, on an accepted notification: last_event
\* is set to the current time and Reload is sent to every receiver (with no
\* receiver, send returns an error, which is dropped).
HandleEmit ==
    /\ Len(handled) < MaxNotifications
    /\ \E r \in Notifications :
         /\ ~(now - last_event < DEBOUNCE_INTERVAL)
         /\ Accepted(r)
         /\ res' = Some(r)
         /\ last_event' = now
         /\ subscribers' = [i \in 1..Len(subscribers) |-> subscribers[i] + 1]
         /\ handled' = Append(handled, [t |-> now, debounced |-> FALSE,
                                        accepted |-> TRUE, sent |-> TRUE])
    /\ UNCHANGED now
    /\ UNCHANGED <<poolVars, siteVars, pathVars, serveVars, mdVars, ctxVars, chanVars, ignVars>>

NextWatch ==
    \/ Tick
    \/ Subscribe
    \/ HandleDebounced
    \/ HandleDiscard
    \/ HandleEmit

SpecWatch == InitWatch /\ [][NextWatch]_vars


(***************************************************************************)
(* Claims about the watch.                                                 *)
(***************************************************************************)
AcceptedSoFar == SelectSeq(handled, LAMBDA h : h.accepted)
SentSoFar == SelectSeq(handled, LAMBDA h : h.sent)

\* C4: a qualifying event less than DEBOUNCE_INTERVAL after an emitted reload
\* is dropped, so two reloads are at least DEBOUNCE_INTERVAL apart; and of two
\* qualifying events, less than the window apart exactly one produces a
\* reload, farther apart than the window both do.
C4_Debounce ==
    /\ \A i, j \in 1..Len(handled) :
         (i < j /\ handled[i].sent /\ handled[j].t - handled[i].t < DEBOUNCE_INTERVAL)
            => ~handled[j].sent
    /\ Len(AcceptedSoFar) = 2 =>
         LET gap == AcceptedSoFar[2].t - AcceptedSoFar[1].t IN
         /\ gap < DEBOUNCE_INTERVAL => Len(SentSoFar) = 1
         /\ gap > DEBOUNCE_INTERVAL => Len(SentSoFar) = 2

\* The notification is a data modification: not an error, and of kind
\* Modify(Data).
C12_DataModification(r) == r.ok /\ r.kind = "Modify.Data"

\* At least one of the affected paths is not ignored.
C12_SomePathNotIgnored(r) ==
    \E i \in 1..Len(r.paths) : ~ignore_path(Bases, r.paths[i])

\* C12: outside the debounce window the handler emits a reload for a
\* notification exactly when it is a data modification and at least one of
\* its paths is not ignored; every other notification is discarded.
C12_EmitIffQualifying ==
    (handled # <<>> /\ ~handled[Len(handled)].debounced) =>
        (handled[Len(handled)].sent
            <=> (C12_DataModification(res.some) /\ C12_SomePathNotIgnored(res.some)))

\* C13: no replay. A new subscriber has received nothing, whatever was sent
\* before, and from then on receives exactly the signals that are sent; and
\* whenever the window has passed the handler can emit, with or without
\* subscribers (a send without subscribers changes nothing but last_event).
C13_NoReplay ==
    /\ [](( Len(handled) < MaxNotifications /\ now - last_event >= DEBOUNCE_INTERVAL )
            => ENABLED HandleEmit)
    /\ [][ /\ Len(subscribers') > Len(subscribers)
               => subscribers'[Len(subscribers')] = 0
           /\ \A i \in 1..Len(subscribers) :
                subscribers'[i] = subscribers[i] + (Len(SentSoFar') - Len(SentSoFar))
           /\ (subscribers = <<>> /\ Len(SentSoFar') > Len(SentSoFar))
               => (subscribers' = <<>> /\ last_event' = now) ]_vars

\* Two reloads were sent, the first one with no subscriber: the oldest
\* subscriber has received only the second.
C13_Witness ==
    /\ Len(SentSoFar) = 2
    /\ Len(subscribers) >= 1
    /\ subscribers[1] = 1

\* The time of the last reload sent before the j-th notification, or the
\* time of construction.
C19_LastSentBefore(j) ==
    LET ts == {handled[i].t : i \in {k \in 1..(j - 1) : handled[k].sent}} IN
    IF ts = {} THEN 0 ELSE CHOOSE t \in ts : \A u \in ts : u <= t

\* The qualifying notification before the j-th one, or 0.
C19_PrevQualifying(j) ==
    LET qs == {k \in 1..(j - 1) : handled[k].accepted} IN
    IF qs = {} THEN 0 ELSE CHOOSE k \in qs : \A l \in qs : l <= k

C33_LastSent ==
    IF SentSoFar = <<>> THEN 0 ELSE SentSoFar[Len(SentSoFar)].t

\* C33: a notification the handler discards (an error, not a data
\* modification, an ignored path, or inside the debounce window) leaves
\* last_event as it is and sends nothing, so last_event is always the time of
\* the last reload sent, and a qualifying notification that is not inside the
\* window of that time is sent whatever was discarded before it.
C33_DiscardChangesNothing ==
    /\ [][(Len(handled') > Len(handled) /\ ~handled'[Len(handled')].sent) =>
             (last_event' = last_event /\ subscribers' = subscribers)]_vars
    /\ [](last_event = C33_LastSent)
    /\ [](\A i \in 1..Len(handled) :
             LET before == SelectSeq(SubSeq(handled, 1, i - 1), LAMBDA h : h.sent)
                 last == IF before = <<>> THEN 0 ELSE before[Len(before)].t
             IN  (handled[i].accepted /\ handled[i].t - last >= DEBOUNCE_INTERVAL)
                    => handled[i].sent)

\* C33 witness: a reload is sent right after two notifications that were
\* discarded outside the debounce window, an error among them.
C33_Witness ==
    /\ Len(handled) = 3
    /\ ~handled[1].debounced /\ ~handled[1].sent
    /\ ~handled[2].debounced /\ ~handled[2].sent
    /\ handled[3].sent /\ handled[3].t = handled[1].t
    /\ res # None /\ res.some.ok

\* C29: the watch starts idle: a qualifying event is suppressed only when a
\* reload was emitted less than DEBOUNCE_INTERVAL before it, so the first
\* qualifying event after the construction of the watch emits a reload,
\* however soon it comes.
C29_SuppressedOnlyAfterReload ==
    \A i \in 1..Len(handled) :
        (handled[i].accepted /\ ~handled[i].sent) =>
            \E j \in 1..(i - 1) :
                handled[j].sent /\ handled[i].t - handled[j].t < DEBOUNCE_INTERVAL


(***************************************************************************)
(* Context::render_site (core.rs): the body of the worker-pool scope walks  *)
(* the source tree, mirrors directories and static files itself and spawns  *)
(* one task per note. A path is a sequence of names, as in the watch; the   *)
(* source tree is fs. A destination entry has the path, the kind ("dir" or  *)
(* "file"), the content ("static": the linked or copied source file,        *)
(* "html": the rendered page, "": nothing yet), the source path it comes    *)
(* from and the thread that wrote it (0: the walking thread, t: task t).    *)
(***************************************************************************)
SrcRoot == << SrcDir >>
DestDir == << <<"out">> >>
StaleEntry ==
    [path |-> DestDir \o << <<"old", ".", "html">> >>, kind |-> "file",
     content |-> "stale", of |-> <<>>, by |-> 0, link |-> None]

\* is_note: the extension of the path is "md".
is_note(path) == path # <<>> /\ Extension(path[Len(path)]) = Some(MD)

\* Context::dest_path: dest_dir.join(src.strip_prefix(src_dir)).
dest_path(src_path) == DestDir \o StripPrefix(src_path, SrcRoot).some

\* Context::note_dest_path: the mirrored path with the extension "html".
note_dest_path(src_path) ==
    LET mirrored == dest_path(src_path) IN
    SubSeq(mirrored, 1, Len(mirrored) - 1)
        \o << SetExtension(mirrored[Len(mirrored)], HTML) >>

\* read_resources: WalkDir yields a directory before its entries, the
\* entries of one directory in the order the file system lists them (any
\* order); filter_entry drops an ignored name and all that is below it.
Children(tree, d) ==
    {e \in tree.files \cup tree.dirs :
        /\ Len(e) = Len(d) + 1
        /\ SubSeq(e, 1, Len(d)) = d
        /\ ~ignore_filename(e[Len(e)])}

ListingOrders(S) ==
    {o \in [1..Cardinality(S) -> S] :
        \A i, j \in 1..Cardinality(S) : i # j => o[i] # o[j]}

RECURSIVE WalkEntry(_, _, _), WalkEntries(_, _, _, _)
\* A mutant of WalkEntry: a directory is yielded after its entries
\* (WalkDir::contents_first).
WalkEntryContentsFirst(root, tree, e) ==
    IF e = <<>> \/ e \in tree.dirs
    THEN {below \o <<Directory(<<root>> \o e).some>> :
            below \in UNION {WalkEntries(root, tree, o, 1) :
                                o \in ListingOrders(Children(tree, e))}}
    ELSE IF is_note(e) THEN {<<Note(<<root>> \o e).some>>}
    ELSE {<<Static(<<root>> \o e).some>>}

WalkEntry(root, tree, e) ==
    IF e = <<>> \/ e \in tree.dirs
    THEN {<<Directory(<<root>> \o e).some>> \o below :
            below \in UNION {WalkEntries(root, tree, o, 1) :
                                o \in ListingOrders(Children(tree, e))}}
    ELSE IF is_note(e) THEN {<<Note(<<root>> \o e).some>>}
    ELSE {<<Static(<<root>> \o e).some>>}

WalkEntries(root, tree, o, i) ==
    IF i > Len(o) THEN {<<>>}
    ELSE {a \o b : a \in WalkEntry(root, tree, o[i]),
                    b \in WalkEntries(root, tree, o, i + 1)}

\* filter_entry sees every entry of the walk, the root (depth 0) included:
\* its file_name is the last name of src_dir, or src_dir itself when that is
\* "." or "..".
read_resources(root, tree) ==
    IF ignore_filename(root) THEN {<<>>} ELSE WalkEntry(root, tree, <<>>)

\* The names src_dir ends with in the model: a plain one, a private one, a
\* hidden one, and "." and "..".
RootNames == { <<"notes">>, <<"_", "notes">>, <<".", "notes">>, <<".">>, <<".", ".">> }

\* Context::new(src_dir, ..) over a source tree, before read_resources.
InitWalk ==
    /\ src_dir \in RootNames
    /\ fs \in SourceTrees
    /\ listed = None
    /\ walk = <<>> /\ dest = {} /\ notes = <<>> /\ writes = {} /\ logged = {}
    /\ site_result = None /\ src_changed = {} /\ failed_at = None
    /\ reqPath = <<>> /\ comps = <<>> /\ path_buf = <<>> /\ sanitized = None
    /\ resource = None /\ resPc = "off"
    /\ PoolIdle /\ ServeIdle /\ IgnIdle /\ CtxIdle /\ ChanIdle /\ WatchIdle /\ MdIdle

\* read_resources(), run to its end.
ReadResources ==
    /\ listed = None
    /\ \E r \in read_resources(src_dir, fs) : listed' = Some(r)
    /\ UNCHANGED <<src_dir, walk, dest, notes, writes, logged, site_result, src_changed, failed_at>>
    /\ UNCHANGED <<poolVars, pathVars, serveVars, watchVars, mdVars, ctxVars, chanVars, ignVars>>

NextWalk == ReadResources

SpecWalk == InitWalk /\ [][NextWalk]_vars

\* The destination entries at a path, and what is there.
EntriesAt(p) == {e \in dest : e.path = p}
IsDestDir(p) == \E e \in EntriesAt(p) : e.kind = "dir"
IsDestFile(p) == \E e \in EntriesAt(p) : e.kind = "file"

\* render_site up to the body of the scope: scope_with_threads gives the
\* channel twice as many slots as there are threads. The destination holds
\* nothing, or a file of an earlier build.
InitSite ==
    /\ thread_count \in 1..MaxThreads
    /\ chan_size = 2 * thread_count
    /\ queue = <<>>
    /\ tx = TRUE
    /\ worker = [w \in 1..thread_count |-> [st |-> "recv", task |-> 0]]
    /\ ran = [t \in 1..MaxTasks |-> 0]
    /\ nSpawned = 0
    /\ pending = 0
    /\ scopePc = "remove"
    /\ fs \in SourceTrees
    /\ src_dir = SrcDir
    /\ listed = None
    /\ walk \in read_resources(src_dir, fs)
    /\ dest \in {{}, {StaleEntry}}
    /\ notes = <<>>
    /\ writes = {}
    /\ logged = {}
    /\ site_result = None /\ src_changed = {} /\ failed_at = None
    /\ reqPath = <<>> /\ comps = <<>> /\ path_buf = <<>> /\ sanitized = None
    /\ resource = None /\ resPc = "off"
    /\ ServeIdle /\ IgnIdle /\ CtxIdle /\ ChanIdle /\ WatchIdle /\ MdIdle

\* remove_dir_force(dest_dir)
SiteRemoveDest ==
    /\ scopePc = "remove"
    /\ dest' = {}
    /\ scopePc' = "body"
    /\ UNCHANGED <<thread_count, chan_size, queue, tx, worker, ran, nSpawned, pending>>
    /\ UNCHANGED <<src_dir, listed, walk, notes, writes, logged, site_result, src_changed, failed_at>>
    /\ UNCHANGED <<pathVars, serveVars, watchVars, mdVars, ctxVars, chanVars, ignVars>>

\* remove_dir_force(dest_dir) returns an error other than NotFound, with some
\* of the destination removed: `?` returns it from the body before the walk,
\* which drops the pool.
SiteRemoveDestFailed ==
    /\ scopePc = "remove"
    /\ dest' \in SUBSET dest
    /\ failed_at' = Some([kind |-> "remove_dir_force", path |-> DestDir])
    /\ site_result' = Some("Err")
    /\ tx' = FALSE
    /\ scopePc' = "join"
    /\ UNCHANGED <<thread_count, chan_size, queue, worker, ran, nSpawned, pending>>
    /\ UNCHANGED <<src_dir, listed, walk, notes, writes, logged, src_changed>>
    /\ UNCHANGED <<pathVars, serveVars, watchVars, mdVars, ctxVars, chanVars, ignVars>>

\* Resource::Directory: fs::create_dir_all(dest_path), which succeeds when
\* the directory is there already.
SiteWalkDirectory ==
    /\ scopePc = "body" /\ walk # <<>> /\ Head(walk).kind = "Directory"
    /\ LET to == dest_path(Head(walk).path) IN
       /\ ~IsDestFile(to)
       /\ dest' = IF IsDestDir(to) THEN dest
                  ELSE dest \cup {[path |-> to, kind |-> "dir", content |-> "",
                                   of |-> Head(walk).path, by |-> 0, link |-> None]}
       /\ writes' = writes \cup {[path |-> to, by |-> 0]}
    /\ walk' = Tail(walk)
    /\ UNCHANGED <<thread_count, chan_size, queue, tx, worker, ran, nSpawned, pending, scopePc>>
    /\ UNCHANGED <<src_dir, listed, notes, logged, site_result, src_changed, failed_at>>
    /\ UNCHANGED <<pathVars, serveVars, watchVars, mdVars, ctxVars, chanVars, ignVars>>

\* hard_link_or_copy(from, to), after the removal of what was at `to`:
\* fs::hard_link makes `to` a second name of the source file (link is the
\* source path); when it fails (two file systems), fs::copy makes a file of
\* its own (link is None).
hard_link_or_copy(from, to) ==
    {[path |-> to, kind |-> "file", content |-> "static", of |-> from, by |-> 0,
      link |-> l] : l \in {Some(from), None}}

\* Resource::Static: hard_link_or_copy removes the file that is at the
\* destination, then links or copies the source file to it.
SiteWalkStatic ==
    /\ scopePc = "body" /\ walk # <<>> /\ Head(walk).kind = "Static"
    /\ LET to == dest_path(Head(walk).path) IN
       /\ ~IsDestDir(to)
       /\ \E e \in hard_link_or_copy(Head(walk).path, to) :
            dest' = (dest \ EntriesAt(to)) \cup {e}
       /\ writes' = writes \cup {[path |-> to, by |-> 0]}
    /\ walk' = Tail(walk)
    /\ UNCHANGED <<thread_count, chan_size, queue, tx, worker, ran, nSpawned, pending, scopePc>>
    /\ UNCHANGED <<src_dir, listed, notes, logged, site_result, src_changed, failed_at>>
    /\ UNCHANGED <<pathVars, serveVars, watchVars, mdVars, ctxVars, chanVars, ignVars>>

\* Resource::Note: pool.spawn of the closure that renders the note; the call
\* is now in tx.send.
SiteWalkNote ==
    /\ scopePc = "body" /\ walk # <<>> /\ Head(walk).kind = "Note"
    /\ nSpawned' = nSpawned + 1
    /\ pending' = nSpawned + 1
    /\ notes' = Append(notes, Head(walk).path)
    /\ scopePc' = "send"
    /\ walk' = Tail(walk)
    /\ UNCHANGED <<thread_count, chan_size, queue, tx, worker, ran>>
    /\ UNCHANGED <<src_dir, listed, dest, writes, logged, site_result, src_changed, failed_at>>
    /\ UNCHANGED <<pathVars, serveVars, watchVars, mdVars, ctxVars, chanVars, ignVars>>

\* The operation of the walking thread on the next resource cannot succeed
\* (create_dir_all on a path that is a file, remove_file on a directory).
WalkBlocked ==
    /\ walk # <<>>
    /\ \/ Head(walk).kind = "Directory" /\ IsDestFile(dest_path(Head(walk).path))
       \/ Head(walk).kind = "Static" /\ IsDestDir(dest_path(Head(walk).path))

\* What a failed operation on the entry r leaves in the destination:
\* create_dir_all changes nothing; hard_link_or_copy may have removed the file
\* at the destination path before fs::hard_link and fs::copy both failed.
AfterFailure(r) ==
    IF r.kind = "Static"
    THEN {dest, dest \ {e \in EntriesAt(dest_path(r.path)) : e.kind = "file"}}
    ELSE {dest}

\* A mutant of SiteWalkFail: the error is dropped and the walk goes on with
\* the next entry.
SiteWalkFailContinuing ==
    /\ scopePc = "body"
    /\ walk # <<>> /\ Head(walk).kind \in {"Directory", "Static"}
    /\ failed_at' = Some(Head(walk))
    /\ site_result' = Some("Err")
    /\ dest' \in AfterFailure(Head(walk))
    /\ walk' = Tail(walk)
    /\ UNCHANGED <<thread_count, chan_size, queue, tx, worker, ran, nSpawned, pending, scopePc>>
    /\ UNCHANGED <<src_dir, listed, notes, writes, logged, src_changed>>
    /\ UNCHANGED <<pathVars, serveVars, watchVars, mdVars, ctxVars, chanVars, ignVars>>

\* create_dir_all or hard_link_or_copy returns an error, because the
\* operation is blocked or for any reason of the file system (permissions,
\* no space): `?` returns the error from the body, which drops the pool.
SiteWalkFail ==
    /\ scopePc = "body"
    /\ walk # <<>> /\ Head(walk).kind \in {"Directory", "Static"}
    /\ failed_at' = Some(Head(walk))
    /\ site_result' = Some("Err")
    /\ dest' \in AfterFailure(Head(walk))
    /\ tx' = FALSE
    /\ scopePc' = "join"
    /\ UNCHANGED <<thread_count, chan_size, queue, worker, ran, nSpawned, pending>>
    /\ UNCHANGED <<src_dir, listed, walk, notes, writes, logged, src_changed>>
    /\ UNCHANGED <<pathVars, serveVars, watchVars, mdVars, ctxVars, chanVars, ignVars>>

\* The walk is over: the body returns Ok(()), which drops the pool.
SiteBodyReturn ==
    /\ scopePc = "body" /\ walk = <<>>
    /\ site_result' = Some("Ok")
    /\ tx' = FALSE
    /\ scopePc' = "join"
    /\ UNCHANGED <<thread_count, chan_size, queue, worker, ran, nSpawned, pending>>
    /\ UNCHANGED <<src_dir, listed, walk, dest, notes, writes, logged, src_changed, failed_at>>
    /\ UNCHANGED <<pathVars, serveVars, watchVars, mdVars, ctxVars, chanVars, ignVars>>

\* ---- the closure of a note task, run by worker w as func()

\* The source file that the file at destination path p is a hard link of.
LinkAt(p) ==
    IF \E e \in EntriesAt(p) : e.link # None
    THEN (CHOOSE e \in EntriesAt(p) : e.link # None).link
    ELSE None

\* render_note_to_file: File::create(dest_path) creates the file or empties
\* the one that is there; the file that is there stays what it was, a hard
\* link of a source file included, and that source file is emptied with it.
TaskCreate(w) ==
    /\ worker[w].st = "run"
    /\ LET t == worker[w].task
           to == note_dest_path(notes[t])
       IN  /\ ~IsDestDir(to)
           /\ dest' = (dest \ EntriesAt(to))
                        \cup {[path |-> to, kind |-> "file", content |-> "",
                               of |-> notes[t], by |-> t, link |-> LinkAt(to)]}
           /\ writes' = writes \cup {[path |-> to, by |-> t]}
           /\ src_changed' = src_changed \cup
                                (IF LinkAt(to) = None THEN {} ELSE {LinkAt(to).some})
    /\ worker' = [worker EXCEPT ![w].st = "render"]
    /\ UNCHANGED <<thread_count, chan_size, queue, tx, ran, nSpawned, pending, scopePc>>
    /\ UNCHANGED <<src_dir, listed, walk, notes, logged, site_result, failed_at>>
    /\ UNCHANGED <<pathVars, serveVars, watchVars, mdVars, ctxVars, chanVars, ignVars>>

\* File::create fails (the destination path is a directory): the closure
\* prints the error and returns.
TaskCreateFailed(w) ==
    /\ worker[w].st = "run"
    /\ IsDestDir(note_dest_path(notes[worker[w].task]))
    /\ logged' = logged \cup {worker[w].task}
    /\ ran' = [ran EXCEPT ![worker[w].task] = @ + 1]
    /\ worker' = [worker EXCEPT ![w] = [st |-> "recv", task |-> 0]]
    /\ UNCHANGED <<thread_count, chan_size, queue, tx, nSpawned, pending, scopePc>>
    /\ UNCHANGED <<src_dir, listed, walk, dest, notes, writes, site_result, src_changed, failed_at>>
    /\ UNCHANGED <<pathVars, serveVars, watchVars, mdVars, ctxVars, chanVars, ignVars>>

\* render_note returns Ok: the page is written through the open file, which
\* is the destination entry unless the walking thread has replaced it since.
TaskRendered(w) ==
    /\ worker[w].st = "render"
    /\ LET t == worker[w].task
           to == note_dest_path(notes[t])
       IN  dest' = {IF e.path = to /\ e.by = t THEN [e EXCEPT !.content = "html"] ELSE e :
                        e \in dest}
    /\ ran' = [ran EXCEPT ![worker[w].task] = @ + 1]
    /\ worker' = [worker EXCEPT ![w] = [st |-> "recv", task |-> 0]]
    /\ UNCHANGED <<thread_count, chan_size, queue, tx, nSpawned, pending, scopePc>>
    /\ UNCHANGED <<src_dir, listed, walk, notes, writes, logged, site_result, src_changed, failed_at>>
    /\ UNCHANGED <<pathVars, serveVars, watchVars, mdVars, ctxVars, chanVars, ignVars>>

\* A closure that gives up the whole build when its note fails.
TaskRenderFailedAborting(w) ==
    /\ worker[w].st = "render"
    /\ logged' = logged \cup {worker[w].task}
    /\ site_result' = Some("Err")
    /\ ran' = [ran EXCEPT ![worker[w].task] = @ + 1]
    /\ worker' = [worker EXCEPT ![w] = [st |-> "recv", task |-> 0]]
    /\ UNCHANGED <<thread_count, chan_size, queue, tx, nSpawned, pending, scopePc>>
    /\ UNCHANGED <<src_dir, listed, walk, dest, notes, writes, src_changed, failed_at>>
    /\ UNCHANGED <<pathVars, serveVars, watchVars, mdVars, ctxVars, chanVars, ignVars>>

\* render_note returns Err (the note cannot be read, the template fails): the
\* closure prints "error rendering note" and returns.
TaskRenderFailed(w) ==
    /\ worker[w].st = "render"
    /\ logged' = logged \cup {worker[w].task}
    /\ ran' = [ran EXCEPT ![worker[w].task] = @ + 1]
    /\ worker' = [worker EXCEPT ![w] = [st |-> "recv", task |-> 0]]
    /\ UNCHANGED <<thread_count, chan_size, queue, tx, nSpawned, pending, scopePc>>
    /\ UNCHANGED <<src_dir, listed, walk, dest, notes, writes, site_result, src_changed, failed_at>>
    /\ UNCHANGED <<pathVars, serveVars, watchVars, mdVars, ctxVars, chanVars, ignVars>>

\* The render panics: the panic unwinds the worker thread, which ends with
\* its task; the closure does not return.
TaskPanic(w) ==
    /\ worker[w].st = "render"
    /\ worker' = [worker EXCEPT ![w].st = "panicked"]
    /\ UNCHANGED <<thread_count, chan_size, queue, tx, ran, nSpawned, pending, scopePc>>
    /\ UNCHANGED <<siteVars, pathVars, serveVars, watchVars, mdVars, ctxVars, chanVars, ignVars>>

\* thread::scope has joined every worker and one of them panicked: the scope
\* panics ("a scoped thread panicked"), and render_site with it.
SiteScopePanic ==
    /\ scopePc = "join"
    /\ \A w \in Workers : worker[w].st \in {"exit", "panicked"}
    /\ \E w \in Workers : worker[w].st = "panicked"
    /\ scopePc' = "panicked"
    /\ UNCHANGED <<thread_count, chan_size, queue, tx, worker, ran, nSpawned, pending>>
    /\ UNCHANGED <<siteVars, pathVars, serveVars, watchVars, mdVars, ctxVars, chanVars, ignVars>>

NextSite ==
    \/ SiteRemoveDest
    \/ SiteRemoveDestFailed
    \/ SiteWalkDirectory
    \/ SiteWalkStatic
    \/ SiteWalkNote
    \/ SiteWalkFail
    \/ SiteBodyReturn
    \/ SendComplete
    \/ \E w \in Workers : WorkerRecv(w)
    \/ \E w \in Workers : TaskCreate(w)
    \/ \E w \in Workers : TaskCreateFailed(w)
    \/ \E w \in Workers : TaskRendered(w)
    \/ \E w \in Workers : TaskRenderFailed(w)
    \/ \E w \in Workers : TaskPanic(w)
    \/ \E w \in Workers : WorkerExit(w)
    \/ ScopeReturn
    \/ SiteScopePanic

SpecSite == InitSite /\ [][NextSite]_vars

(***************************************************************************)
(* Claims about render_site.                                               *)
(***************************************************************************)
\* No name on the path is ignored.
NotIgnored(e) == \A i \in 1..Len(e) : ~ignore_filename(e[i])

\* The notes the walk finds in the source tree.
NotesFound == {SrcRoot \o e : e \in {f \in fs.files : NotIgnored(f) /\ is_note(f)}}

\* The resources of the source tree none of whose names below the root is
\* ignored, each with its kind.
C21_Expected ==
    {Directory(<<src_dir>> \o d).some : d \in {<<>>} \cup {x \in fs.dirs : NotIgnored(x)}}
    \cup {Note(<<src_dir>> \o f).some : f \in {x \in fs.files : NotIgnored(x) /\ is_note(x)}}
    \cup {Static(<<src_dir>> \o f).some : f \in {x \in fs.files : NotIgnored(x) /\ ~is_note(x)}}

\* C21: read_resources yields exactly the entries none of whose names below
\* the source root is ignored, once each, notes as Note, other files as
\* Static, directories as Directory; the root is walked whatever its name.
C21_YieldsExactlyNotIgnored ==
    listed # None =>
        /\ {listed.some[i] : i \in 1..Len(listed.some)} = C21_Expected
        /\ Len(listed.some) = Cardinality(C21_Expected)

\* C15: a note whose render returns an error is only logged. The body
\* returns an error only at an operation of the walking thread that fails,
\* never for a note; and when it has returned Ok and the scope is over, every
\* note found by the walk was submitted once and its task has run to its
\* end, the failed one included.
C15_NoteErrorOnlyLogged ==
    /\ site_result = Some("Err") => failed_at # None
    /\ (scopePc = "returned" /\ site_result = Some("Ok")) =>
         /\ Len(notes) = Cardinality(NotesFound)
         /\ {notes[t] : t \in 1..Len(notes)} = NotesFound
         /\ nSpawned = Len(notes)
         /\ \A t \in 1..nSpawned : ran[t] = 1
         /\ logged \subseteq 1..nSpawned

\* render_site has returned Ok after two notes, one of which failed and was
\* logged while the page of the other is in the destination.
C15_Witness ==
    /\ scopePc = "returned" /\ site_result = Some("Ok")
    /\ nSpawned = 2
    /\ Cardinality(logged) = 1
    /\ \E e \in dest : e.content = "html" /\ e.by \notin logged

\* C16: every destination path has at most one writer: no two writes, by two
\* tasks or by a task and the walking thread, go to the same path.
C16_OneWriterPerPath ==
    \A a, b \in writes : a.path = b.path => a.by = b.by

\* What the destination holds, without the writers.
C17_Dest == {[path |-> e.path, kind |-> e.kind, content |-> e.content, of |-> e.of] : e \in dest}

\* The mirror of the source tree: a directory per directory, the file per
\* static file, the page per note.
C17_Mirror ==
    {[path |-> DestDir \o d, kind |-> "dir", content |-> "", of |-> SrcRoot \o d] :
        d \in {<<>>} \cup {x \in fs.dirs : NotIgnored(x)}}
    \cup {[path |-> DestDir \o f, kind |-> "file", content |-> "static", of |-> SrcRoot \o f] :
        f \in {x \in fs.files : NotIgnored(x) /\ ~is_note(x)}}
    \cup {[path |-> note_dest_path(n), kind |-> "file", content |-> "html", of |-> n] :
        n \in NotesFound}

\* C17: when render_site has returned Ok and every render succeeded, the
\* destination is the mirror of the source tree and holds nothing else.
C17_DestMirrorsSource ==
    (scopePc = "returned" /\ site_result = Some("Ok") /\ logged = {})
        => C17_Dest = C17_Mirror

\* C20: a panic in the render of one note aborts that render only: the scope
\* does not panic, so render_site returns, and when it has returned every
\* other submitted note has been rendered.
C20_PanicAbortsOnlyThatNote ==
    (\E w \in Workers : worker[w].st = "panicked") =>
        /\ scopePc # "panicked"
        /\ scopePc = "returned" =>
             \A t \in 1..nSpawned :
                (\A w \in Workers : ~(worker[w].st = "panicked" /\ worker[w].task = t))
                    => ran[t] = 1

\* C34: render_site never changes the source tree: whatever the tree and the
\* interleaving of the workers, no source file is truncated, written to or
\* removed by a build into a destination outside the source directory.
C34_SourceTreeUnchanged == src_changed = {}

\* The directory a path is in.
C25_Parent(p) == SubSeq(p, 1, Len(p) - 1)

\* C25: for every note whose task has been submitted, the destination
\* directory its output goes in is there, made by the walking thread: it was
\* made before the submission (the submission makes nothing) and stays, so no
\* task runs before the directory of its output exists.
C25_ParentDirectoryBeforeSubmit ==
    \A t \in 1..Len(notes) :
        \E e \in EntriesAt(C25_Parent(note_dest_path(notes[t]))) :
            e.kind = "dir" /\ e.by = 0

\* C25 witness: the task of a note in a subdirectory is running, and has not
\* yet created its file.
C25_Witness ==
    \E w \in Workers :
        /\ worker[w].st = "run"
        /\ Len(notes[worker[w].task]) = Len(SrcRoot) + 2
        /\ IsDestDir(C25_Parent(note_dest_path(notes[worker[w].task])))
        /\ ~IsDestFile(note_dest_path(notes[worker[w].task]))

\* What the walking thread has made in the destination.
C36_ByWalk == {e \in dest : e.by = 0}

\* C36: when clearing the destination, creating a directory or placing a
\* static file has failed, the body has returned that error and the pool is
\* dropped; the walk stays at the entry that failed: no later entry is taken
\* from it, nothing more is submitted and the walking thread makes nothing
\* more; and render_site returns the error only when every task submitted
\* before the failure has run to its end.
C36_FailureStopsWalkAfterTasks ==
    /\ [](failed_at # None =>
            /\ site_result = Some("Err") /\ ~tx
            /\ scopePc \in {"join", "returned", "panicked"}
            /\ failed_at.some.kind # "remove_dir_force" =>
                  (walk # <<>> /\ Head(walk) = failed_at.some)
            /\ failed_at.some.kind = "remove_dir_force" =>
                  (walk \in read_resources(src_dir, fs) /\ nSpawned = 0))
    /\ [][failed_at # None =>
            /\ walk' = walk /\ notes' = notes /\ nSpawned' = nSpawned
            /\ C36_ByWalk' \subseteq C36_ByWalk
            /\ site_result' = site_result /\ failed_at' = failed_at]_vars
    /\ []((failed_at # None /\ scopePc = "returned") =>
            /\ queue = <<>>
            /\ \A t \in 1..nSpawned : ran[t] = 1)

\* C36 witness: placing a static file failed after a note was submitted and
\* before a later entry of the walk; render_site has returned the error, the
\* task of the note has run and its page is in the destination.
C36_Witness ==
    /\ scopePc = "returned" /\ site_result = Some("Err")
    /\ failed_at # None /\ failed_at.some.kind = "Static"
    /\ Len(walk) >= 2
    /\ nSpawned = 1 /\ ran[1] = 1
    /\ \E e \in dest : e.by = 1 /\ e.content = "html"


(***************************************************************************)
(* Build, then serve: render_site runs to its end on a source tree, then    *)
(* resolve_resource looks up a request path in the same tree.              *)
(***************************************************************************)
\* The request paths looked up after the build.
BuiltRequests ==
    { <<"foo", ".", "html">>,
      <<"/", "foo", ".", "html">>,
      <<"foo", ".", "md">>,
      <<"foo", "/", "foo", ".", "html">>,
      <<"foo">>,
      <<"_", "foo">>,
      <<"bar", ".", "html">> }

\* resolve_resource(rel_path) is called once render_site has returned:
\* sanitize_path starts on the components of rel_path.
ResolveBegin ==
    /\ scopePc = "returned" /\ resPc = "off"
    /\ \E r \in BuiltRequests :
         /\ reqPath' = r
         /\ comps' = Components(r)
    /\ resPc' = "sanitize"
    /\ UNCHANGED <<fs, path_buf, sanitized, resource>>
    /\ UNCHANGED <<poolVars, siteVars, serveVars, watchVars, mdVars, ctxVars, chanVars, ignVars>>

NextBuildServe ==
    \/ NextSite
    \/ ResolveBegin
    \/ NextResolve

SpecBuildServe == InitSite /\ [][NextBuildServe]_vars

\* The destination file of kind `content` that the build made at the
\* relative path the request names, from the source file src_path.
C35_Built(content, src_path) ==
    \E e \in dest :
        /\ e.path = DestDir \o Below(SrcPath).some
        /\ e.kind = "file" /\ e.content = content
        /\ e.of = SrcRoot \o Below(src_path).some

\* C35: build and serve agree: after a build that returned Ok with every
\* render succeeding, a request path resolves to Static(f) exactly when the
\* destination holds at that relative path the file linked or copied from f,
\* and to Note(f) exactly when it holds there the page rendered from f.
C35_BuildAndServeAgree ==
    (scopePc = "returned" /\ site_result = Some("Ok") /\ logged = {}
        /\ resPc = "done" /\ sanitized # None) =>
        /\ (resource # None /\ resource.some.kind = "Static")
              <=> C35_Built("static", SrcPath)
        /\ (resource # None /\ resource.some.kind = "Note")
              <=> C35_Built("html", NotePath)


(***************************************************************************)
(* The Markdown adapters (markdown/add_ids.rs, toc.rs, rel_links.rs).      *)
(* An adapter wraps an upstream iterator of events; one action is one call *)
(* of its next(). Text is a sequence of characters. The level of an        *)
(* End(Heading) event is left out: no adapter reads it.                    *)
(***************************************************************************)
MaxIdsEvents == 4

StartHeading(level, id) == [tag |-> "StartHeading", level |-> level, id |-> id]
EndHeading == [tag |-> "EndHeading"]
Text(t) == [tag |-> "Text", text |-> t]
StartEmphasis == [tag |-> "StartEmphasis"]
StartLink(link_type, dest_url) ==
    [tag |-> "StartLink", link_type |-> link_type, dest_url |-> dest_url]
EndLink == [tag |-> "EndLink"]

\* char::is_alphanumeric and char::to_ascii_lowercase on the characters of
\* the model.
Alphanumeric == {"h", "i", "x", "y", "b", "e", "H", "I"}
is_alphanumeric(c) == c \in Alphanumeric
to_ascii_lowercase(c) == IF c = "H" THEN "h" ELSE IF c = "I" THEN "i" ELSE c

\* The filter_map of slug_append over the characters of s; last_is_dash is
\* the closure's flag.
RECURSIVE SlugChars(_, _)
SlugChars(s, last_is_dash) ==
    IF s = <<>> THEN <<>>
    ELSE IF is_alphanumeric(Head(s))
         THEN <<to_ascii_lowercase(Head(s))>> \o SlugChars(Tail(s), FALSE)
    ELSE IF last_is_dash THEN SlugChars(Tail(s), TRUE)
    ELSE <<"-">> \o SlugChars(Tail(s), TRUE)

\* slug_append(buf, s): last_is_dash starts as false in every call.
slug_append(buf, s) == buf \o SlugChars(s, FALSE)

\* A mutant of consume_heading_from: the loop does not break at End(Heading).
RECURSIVE consume_to_end(_, _)
consume_to_end(it, slugbuf) ==
    IF it = <<>> THEN [buffer |-> <<>>, slug |-> slugbuf, rest |-> <<>>]
    ELSE LET e == Head(it)
             slug2 == IF e.tag = "Text" THEN slug_append(slugbuf, e.text) ELSE slugbuf
             r == consume_to_end(Tail(it), slug2)
         IN  [r EXCEPT !.buffer = <<e>> \o @]

\* consume_heading over the upstream events `it`, with the slug so far: every
\* event up to and including the first End(Heading) goes to the buffer, the
\* text of every Text event is slug_append-ed.
RECURSIVE consume_heading_from(_, _)
consume_heading_from(it, slugbuf) ==
    IF it = <<>> THEN [buffer |-> <<>>, slug |-> slugbuf, rest |-> <<>>]
    ELSE LET e == Head(it)
             slug2 == IF e.tag = "Text" THEN slug_append(slugbuf, e.text) ELSE slugbuf
         IN  IF e.tag = "EndHeading"
             THEN [buffer |-> <<e>>, slug |-> slug2, rest |-> Tail(it)]
             ELSE LET r == consume_heading_from(Tail(it), slug2)
                  IN  [r EXCEPT !.buffer = <<e>> \o @]

consume_heading(it) == consume_heading_from(it, <<>>)

\* A mutant of NeedsId: every heading start is given a slug.
NeedsIdAlways(e) == e.tag = "StartHeading"

\* The match arm of AddHeadingIds::next: a heading start with id: None.
NeedsId(e) == e.tag = "StartHeading" /\ e.id = None

\* The position in src of the next upstream event.
Pos == Len(src) - Len(iter) + 1

\* next() with a buffered event: it is unbuffered and returned.
IdsNextBuffered ==
    /\ mdPc = "ids"
    /\ buffer # <<>>
    /\ out' = Append(out, Head(buffer))
    /\ buffer' = Tail(buffer)
    /\ UNCHANGED <<src, iter, entries, in_heading, buffered, staged, page_title, mdPc>>
    /\ UNCHANGED <<poolVars, siteVars, pathVars, serveVars, watchVars, ctxVars, chanVars, ignVars>>

\* next() on a heading start without an ID: consume_heading buffers the span
\* and the heading start is returned with the slug as its ID.
IdsNextHeading ==
    /\ mdPc = "ids"
    /\ buffer = <<>> /\ iter # <<>>
    /\ NeedsId(Head(iter))
    /\ LET r == consume_heading(Tail(iter)) IN
         /\ buffer' = r.buffer
         /\ iter' = r.rest
         /\ buffered' = buffered \cup ((Pos + 1)..(Pos + Len(r.buffer)))
         /\ out' = Append(out, StartHeading(Head(iter).level, Some(r.slug)))
    /\ UNCHANGED <<src, entries, in_heading, staged, page_title, mdPc>>
    /\ UNCHANGED <<poolVars, siteVars, pathVars, serveVars, watchVars, ctxVars, chanVars, ignVars>>

\* next() on any other event: it is returned as it is.
IdsNextPass ==
    /\ mdPc = "ids"
    /\ buffer = <<>> /\ iter # <<>>
    /\ ~NeedsId(Head(iter))
    /\ out' = Append(out, Head(iter))
    /\ iter' = Tail(iter)
    /\ UNCHANGED <<src, buffer, entries, in_heading, buffered, staged, page_title, mdPc>>
    /\ UNCHANGED <<poolVars, siteVars, pathVars, serveVars, watchVars, ctxVars, chanVars, ignVars>>

\* next() at the end of the upstream: None.
IdsNextEnd ==
    /\ mdPc = "ids"
    /\ buffer = <<>> /\ iter = <<>>
    /\ mdPc' = "end"
    /\ UNCHANGED <<src, iter, buffer, entries, in_heading, out, buffered, staged, page_title>>
    /\ UNCHANGED <<poolVars, siteVars, pathVars, serveVars, watchVars, ctxVars, chanVars, ignVars>>

NextIds ==
    \/ IdsNextBuffered
    \/ IdsNextHeading
    \/ IdsNextPass
    \/ IdsNextEnd

\* The upstream events of AddHeadingIds in the model.
IdsEvents ==
    { StartHeading(1, None), StartHeading(2, Some(<<"x">>)), EndHeading,
      Text(<<"h", "i">>), Text(<<"H", " ">>), Text(<<"'", " ", "i">>),
      StartEmphasis }

\* AddHeadingIds::new over an upstream of at most MaxIdsEvents events.
InitIds ==
    /\ src \in BoundedStrings(IdsEvents, MaxIdsEvents)
    /\ iter = src
    /\ buffer = <<>>
    /\ entries = <<>>
    /\ in_heading = FALSE
    /\ out = <<>>
    /\ buffered = {}
    /\ staged = <<>>
    /\ page_title = None
    /\ mdPc = "ids"
    /\ PoolIdle /\ SiteIdle /\ PathIdle /\ ServeIdle /\ IgnIdle /\ CtxIdle /\ ChanIdle /\ WatchIdle

SpecIds == InitIds /\ [][NextIds]_vars

(***************************************************************************)
(* Claims about AddHeadingIds.                                             *)
(***************************************************************************)
\* Headings do not nest and every heading is closed, as in a parser's output.
WellFormedHeadings(s) ==
    /\ \A i \in 1..Len(s) : s[i].tag = "StartHeading" =>
         \E j \in (i + 1)..Len(s) :
            /\ s[j].tag = "EndHeading"
            /\ \A k \in (i + 1)..(j - 1) : s[k].tag \notin {"StartHeading", "EndHeading"}
    /\ \A j \in 1..Len(s) : s[j].tag = "EndHeading" =>
         \E i \in 1..(j - 1) :
            /\ s[i].tag = "StartHeading"
            /\ \A k \in (i + 1)..(j - 1) : s[k].tag \notin {"StartHeading", "EndHeading"}

\* The end of the heading that starts at i: the first End(Heading) after i.
HeadingEnd(s, i) ==
    CHOOSE j \in (i + 1)..Len(s) :
        s[j].tag = "EndHeading" /\ \A k \in (i + 1)..(j - 1) : s[k].tag # "EndHeading"

\* The text of the Text events of s at the positions from..to, concatenated.
RECURSIVE TextBetween(_, _, _)
TextBetween(s, from, to) ==
    IF from > to THEN <<>>
    ELSE (IF s[from].tag = "Text" THEN s[from].text ELSE <<>>)
            \o TextBetween(s, from + 1, to)

\* The slug of a text: alphanumeric characters lowercased, and one hyphen for
\* each maximal run of other characters.
RECURSIVE C7_SlugFrom(_, _)
C7_SlugFrom(t, k) ==
    IF k > Len(t) THEN <<>>
    ELSE (IF is_alphanumeric(t[k]) THEN <<to_ascii_lowercase(t[k])>>
          ELSE IF k = 1 \/ is_alphanumeric(t[k - 1]) THEN <<"-">>
          ELSE <<>>) \o C7_SlugFrom(t, k + 1)

C7_Slug(t) == C7_SlugFrom(t, 1)

\* C7: the ID injected into a heading without an explicit ID is the slug of
\* the heading's concatenated text, so it never has two hyphens in a row.
C7_IdIsSlugOfText ==
    (mdPc = "end" /\ WellFormedHeadings(src)) =>
        \A i \in 1..Len(src) :
            (src[i].tag = "StartHeading" /\ src[i].id = None) =>
                LET id == out[i].id.some IN
                /\ id = C7_Slug(TextBetween(src, i + 1, HeadingEnd(src, i) - 1))
                /\ \A k \in 1..(Len(id) - 1) : ~(id[k] = "-" /\ id[k + 1] = "-")

\* The concatenated text of the heading that starts at i.
C18_HeadingText(s, i) == TextBetween(s, i + 1, HeadingEnd(s, i) - 1)

\* C18: the generated ID is a function of the heading's concatenated text
\* alone: it is the ID the same text gets when it comes as one Text event,
\* whatever the events it is split into, and two headings of a document with
\* equal concatenated text get equal IDs.
C18_IdFunctionOfTextAlone ==
    (mdPc = "end" /\ WellFormedHeadings(src)) =>
        /\ \A i \in 1..Len(src) :
              (src[i].tag = "StartHeading" /\ src[i].id = None) =>
                 out[i].id.some = slug_append(<<>>, C18_HeadingText(src, i))
        /\ \A i, j \in 1..Len(src) :
              ( /\ src[i].tag = "StartHeading" /\ src[i].id = None
                /\ src[j].tag = "StartHeading" /\ src[j].id = None
                /\ C18_HeadingText(src, i) = C18_HeadingText(src, j) )
              => out[i].id = out[j].id

\* The positions of the span of the heading that starts at i.
HeadingSpan(s, i) == i..HeadingEnd(s, i)

\* C8: a heading start that carries an explicit ID is returned as it is, and
\* (headings not nesting) no event of its span is buffered or altered.
C8_ExplicitIdUntouched ==
    mdPc = "end" =>
        /\ Len(out) = Len(src)
        /\ \A i \in 1..Len(src) :
             (src[i].tag = "StartHeading" /\ src[i].id # None) => out[i] = src[i]
        /\ WellFormedHeadings(src) =>
             \A i \in 1..Len(src) :
                (src[i].tag = "StartHeading" /\ src[i].id # None) =>
                    \A k \in HeadingSpan(src, i) : out[k] = src[k] /\ k \notin buffered

\* C8 witness: a heading with an explicit ID and text has gone through, after
\* a heading that was given an ID.
C8_Witness ==
    /\ mdPc = "end"
    /\ src = <<StartHeading(1, None), EndHeading, StartHeading(2, Some(<<"x">>)), EndHeading>>
    /\ out[3] = StartHeading(2, Some(<<"x">>))
    /\ buffered = {2}

\* The events of the buffer are those of src at the positions a..b, which lie
\* in the span of the ID-less heading start at p: after p, and with no heading
\* end before b.
C24_InSpanOf(p, a, b) ==
    /\ NeedsId(src[p])
    /\ p < a
    /\ buffer = SubSeq(src, a, b)
    /\ \A k \in (p + 1)..(b - 1) : src[k].tag # "EndHeading"

\* The buffer holds only events of one heading span.
C24_BufferIsOneSpan ==
    buffer # <<>> =>
        \E p \in 1..Len(src) : C24_InSpanOf(p, Pos - Len(buffer), Pos - 1)

\* C24: the lookahead is bounded by one heading: the buffer always holds only
\* events of the span of one ID-less heading start (those after it, up to and
\* including its heading end), and the buffer is empty at every call of
\* next() that pulls from the upstream.
C24_BoundedLookahead ==
    /\ []C24_BufferIsOneSpan
    /\ [][iter' # iter => buffer = <<>>]_vars

\* C24 witness: the span of the first of two headings is in the buffer, and
\* the second heading is still upstream.
C24_Witness ==
    /\ src = <<StartHeading(1, None), Text(<<"h", "i">>), EndHeading, StartHeading(1, None)>>
    /\ buffer = <<Text(<<"h", "i">>), EndHeading>>
    /\ iter = <<StartHeading(1, None)>>

\* A heading start of src lies inside the span of a heading that is given an
\* ID: it is one of the events consume_heading has buffered.
C22_NestedStarts == {k \in buffered : src[k].tag = "StartHeading"}

\* C22: a heading start inside the span of a heading that is being given an
\* ID is detected: the adapter aborts ("nested headings are not allowed") and
\* the nested heading start is never emitted. The assert of consume_heading
\* reads the buffer, which next() has just found empty, so it never fails:
\* no behaviour of the adapter aborts, and the nested heading start is
\* unbuffered and returned like any other event.
C22_NestedHeadingNotEmitted ==
    \A k \in C22_NestedStarts : Len(out) < k


(***************************************************************************)
(* TableOfContents (toc.rs).                                               *)
(***************************************************************************)
MaxTocEvents == 5

TocEntry(level, id, title) == [level |-> level, id |-> id, title |-> title]

\* next() on a heading start: a new entry with the heading's level and ID
\* and an empty title is pushed; in_heading is set.
TocNextHeadingStart ==
    /\ mdPc = "toc"
    /\ iter # <<>> /\ Head(iter).tag = "StartHeading"
    /\ entries' = Append(entries, TocEntry(Head(iter).level, Head(iter).id, <<>>))
    /\ in_heading' = TRUE
    /\ out' = Append(out, Head(iter))
    /\ iter' = Tail(iter)
    /\ UNCHANGED <<src, buffer, buffered, staged, page_title, mdPc>>
    /\ UNCHANGED <<poolVars, siteVars, pathVars, serveVars, watchVars, ctxVars, chanVars, ignVars>>

\* A mutant of TocNextHeadingEnd: in_heading is not cleared.
TocNextHeadingEndNoReset ==
    /\ mdPc = "toc"
    /\ iter # <<>> /\ Head(iter).tag = "EndHeading"
    /\ in_heading
    /\ out' = Append(out, Head(iter))
    /\ iter' = Tail(iter)
    /\ UNCHANGED <<src, buffer, entries, in_heading, buffered, staged, page_title, mdPc>>
    /\ UNCHANGED <<poolVars, siteVars, pathVars, serveVars, watchVars, ctxVars, chanVars, ignVars>>

\* next() on a heading end inside a heading: in_heading is cleared.
TocNextHeadingEnd ==
    /\ mdPc = "toc"
    /\ iter # <<>> /\ Head(iter).tag = "EndHeading"
    /\ in_heading
    /\ in_heading' = FALSE
    /\ out' = Append(out, Head(iter))
    /\ iter' = Tail(iter)
    /\ UNCHANGED <<src, buffer, entries, buffered, staged, page_title, mdPc>>
    /\ UNCHANGED <<poolVars, siteVars, pathVars, serveVars, watchVars, ctxVars, chanVars, ignVars>>

\* next() on a heading end outside a heading: the assert fails ("heading
\* ended without starting").
TocPanic ==
    /\ mdPc = "toc"
    /\ iter # <<>> /\ Head(iter).tag = "EndHeading"
    /\ ~in_heading
    /\ mdPc' = "panic"
    /\ iter' = Tail(iter)
    /\ UNCHANGED <<src, buffer, entries, in_heading, out, buffered, staged, page_title>>
    /\ UNCHANGED <<poolVars, siteVars, pathVars, serveVars, watchVars, ctxVars, chanVars, ignVars>>

\* next() on a text event: inside a heading the text is appended to the last
\* entry's title (in_heading is only set after a push, so there is one).
TocNextText ==
    /\ mdPc = "toc"
    /\ iter # <<>> /\ Head(iter).tag = "Text"
    /\ entries' = IF in_heading
                  THEN [entries EXCEPT ![Len(entries)].title = @ \o Head(iter).text]
                  ELSE entries
    /\ out' = Append(out, Head(iter))
    /\ iter' = Tail(iter)
    /\ UNCHANGED <<src, buffer, in_heading, buffered, staged, page_title, mdPc>>
    /\ UNCHANGED <<poolVars, siteVars, pathVars, serveVars, watchVars, ctxVars, chanVars, ignVars>>

\* next() on any other event: it is only passed on.
TocNextOther ==
    /\ mdPc = "toc"
    /\ iter # <<>> /\ Head(iter).tag \notin {"StartHeading", "EndHeading", "Text"}
    /\ out' = Append(out, Head(iter))
    /\ iter' = Tail(iter)
    /\ UNCHANGED <<src, buffer, entries, in_heading, buffered, staged, page_title, mdPc>>
    /\ UNCHANGED <<poolVars, siteVars, pathVars, serveVars, watchVars, ctxVars, chanVars, ignVars>>

\* next() at the end of the upstream: None.
TocNextEnd ==
    /\ mdPc = "toc"
    /\ iter = <<>>
    /\ mdPc' = "end"
    /\ UNCHANGED <<src, iter, buffer, entries, in_heading, out, buffered, staged, page_title>>
    /\ UNCHANGED <<poolVars, siteVars, pathVars, serveVars, watchVars, ctxVars, chanVars, ignVars>>

NextToc ==
    \/ TocNextHeadingStart
    \/ TocNextHeadingEnd
    \/ TocPanic
    \/ TocNextText
    \/ TocNextOther
    \/ TocNextEnd

\* The upstream events of TableOfContents in the model.
TocEvents ==
    { StartHeading(1, Some(<<"x">>)), StartHeading(2, None), EndHeading,
      Text(<<"h", "i">>), Text(<<"b", "y", "e">>), StartEmphasis }

\* TableOfContents::new over an upstream of at most MaxTocEvents events and
\* an empty vector.
InitToc ==
    /\ src \in BoundedStrings(TocEvents, MaxTocEvents)
    /\ iter = src
    /\ buffer = <<>>
    /\ entries = <<>>
    /\ in_heading = FALSE
    /\ out = <<>>
    /\ buffered = {}
    /\ staged = <<>>
    /\ page_title = None
    /\ mdPc = "toc"
    /\ PoolIdle /\ SiteIdle /\ PathIdle /\ ServeIdle /\ IgnIdle /\ CtxIdle /\ ChanIdle /\ WatchIdle

SpecToc == InitToc /\ [][NextToc]_vars

\* The positions of the heading starts of s, in order.
HeadingStarts(s) ==
    SelectSeq([i \in 1..Len(s) |-> i], LAMBDA i : s[i].tag = "StartHeading")

\* C9: once TableOfContents has consumed a whole stream (of a parser:
\* headings closed and not nested), the vector holds one entry per heading, in
\* document order, with the heading's level and ID (if any) and, as title, the
\* text of the Text events between the heading's start and end; text outside
\* a heading is in no entry.
C9_TocEntriesMatchHeadings ==
    (mdPc = "end" /\ WellFormedHeadings(src)) =>
        LET starts == HeadingStarts(src) IN
        /\ Len(entries) = Len(starts)
        /\ Len(entries) = Cardinality({j \in 1..Len(src) : src[j].tag = "EndHeading"})
        /\ \A k \in 1..Len(starts) :
             entries[k] = TocEntry(src[starts[k]].level, src[starts[k]].id,
                                   TextBetween(src, starts[k] + 1,
                                               HeadingEnd(src, starts[k]) - 1))

\* C9 witness: two headings, one with an ID and a title, one without either,
\* have given two entries in document order.
C9_Witness ==
    /\ mdPc = "end"
    /\ src = <<StartHeading(1, Some(<<"x">>)), Text(<<"h", "i">>), EndHeading,
               StartHeading(2, None), EndHeading>>
    /\ entries = <<TocEntry(1, Some(<<"x">>), <<"h", "i">>), TocEntry(2, None, <<>>)>>


(***************************************************************************)
(* RewriteRelativeLinks (rel_links.rs). A URL is a sequence of characters; *)
(* ":", "/" and "." are the characters the code looks at, and every other  *)
(* element stands for a run of letters.                                    *)
(***************************************************************************)
MaxUrlLen == 5

\* str::find of one character: its first position, or None.
Find(url, c) ==
    LET at == {i \in 1..Len(url) : url[i] = c} IN
    IF at = {} THEN None ELSE Some(CHOOSE i \in at : \A j \in at : i <= j)

\* url.find("//")
FindSlashSlash(url) ==
    LET at == {i \in 1..(Len(url) - 1) : url[i] = "/" /\ url[i + 1] = "/"} IN
    IF at = {} THEN None ELSE Some(CHOOSE i \in at : \A j \in at : i <= j)

\* is_absolute_url: the match on (colon, slash).
is_absolute_url(url) ==
    LET colon == Find(url, ":")
        slash == Find(url, "/")
    IN  IF colon # None /\ slash # None /\ colon.some < slash.some THEN TRUE
        ELSE IF slash # None
             THEN LET ss == FindSlashSlash(url) IN ss # None /\ ss.some <= slash.some
        ELSE FALSE

\* rewrite_url: url.rsplit_once(".") gives (base, ext); with ext == "md" the
\* result is base + ".html", else the URL.
rewrite_url(url) ==
    LET d == LastDot(url) IN
    IF d > 0 /\ SubSeq(url, d + 1, Len(url)) = <<"md">>
    THEN SubSeq(url, 1, d - 1) \o <<".", "html">>
    ELSE url

\* next() on a link start: the destination of a URL that is_absolute_url says
\* is not absolute goes through rewrite_url; the other fields are kept.
LinksNextLink ==
    /\ mdPc = "links"
    /\ iter # <<>> /\ Head(iter).tag = "StartLink"
    /\ LET dest_url == Head(iter).dest_url
           url == IF is_absolute_url(dest_url) THEN dest_url ELSE rewrite_url(dest_url)
       IN  out' = Append(out, StartLink(Head(iter).link_type, url))
    /\ iter' = Tail(iter)
    /\ UNCHANGED <<src, buffer, entries, in_heading, buffered, staged, page_title, mdPc>>
    /\ UNCHANGED <<poolVars, siteVars, pathVars, serveVars, watchVars, ctxVars, chanVars, ignVars>>

\* next() on any other event: it is returned as it is.
LinksNextPass ==
    /\ mdPc = "links"
    /\ iter # <<>> /\ Head(iter).tag # "StartLink"
    /\ out' = Append(out, Head(iter))
    /\ iter' = Tail(iter)
    /\ UNCHANGED <<src, buffer, entries, in_heading, buffered, staged, page_title, mdPc>>
    /\ UNCHANGED <<poolVars, siteVars, pathVars, serveVars, watchVars, ctxVars, chanVars, ignVars>>

\* next() at the end of the upstream: None.
LinksNextEnd ==
    /\ mdPc = "links"
    /\ iter = <<>>
    /\ mdPc' = "end"
    /\ UNCHANGED <<src, iter, buffer, entries, in_heading, out, buffered, staged, page_title>>
    /\ UNCHANGED <<poolVars, siteVars, pathVars, serveVars, watchVars, ctxVars, chanVars, ignVars>>

NextLinks ==
    \/ LinksNextLink
    \/ LinksNextPass
    \/ LinksNextEnd

\* The destinations of the model: every short URL, and those of the unit
\* tests of rel_links.rs.
UrlChars == {":", "/", ".", "x", "md"}
ExampleUrls ==
    { <<"bar", ".", "md">>,
      <<".", "/", "bar", ".", "md">>,
      <<".", "/", "bar", ".", "png">>,
      <<"http", ":", "/", "/", "foo", ".", "com", "/", "bar", ".", "md">>,
      <<"mailto", ":", "me", "@", "example", ".", "md">>,
      <<"foo", "/", "bar", "/", "/", "baz">> }
Urls == BoundedStrings(UrlChars, MaxUrlLen) \cup ExampleUrls

\* RewriteRelativeLinks::new over a paragraph with an inline link and a
\* reference-style link to the same destination.
InitLinks ==
    /\ \E u \in Urls :
         src = << StartLink("Inline", u), Text(<<"h", "i">>), EndLink,
                  StartLink("Reference", u), Text(<<"h", "i">>), EndLink >>
    /\ iter = src
    /\ buffer = <<>>
    /\ entries = <<>>
    /\ in_heading = FALSE
    /\ out = <<>>
    /\ buffered = {}
    /\ staged = <<>>
    /\ page_title = None
    /\ mdPc = "links"
    /\ PoolIdle /\ SiteIdle /\ PathIdle /\ ServeIdle /\ IgnIdle /\ CtxIdle /\ ChanIdle /\ WatchIdle

SpecLinks == InitLinks /\ [][NextLinks]_vars

\* A URL is absolute if a ":" comes before any "/" in it, or if it begins
\* with "//"; otherwise it is relative.
C10_Absolute(url) ==
    \/ \E i \in 1..Len(url) : url[i] = ":" /\ \A j \in 1..(i - 1) : url[j] # "/"
    \/ Len(url) >= 2 /\ url[1] = "/" /\ url[2] = "/"

\* The URL ends with the extension ".md".
C10_HasMdExtension(url) ==
    Len(url) >= 2 /\ url[Len(url)] = "md" /\ url[Len(url) - 1] = "."

\* C10: the destination of a link start is rewritten to the same path with
\* the extension .html exactly when the URL is relative and its extension is
\* .md; every other relative URL and every absolute URL is unchanged; and the
\* result depends on the destination only, not on the link type.
C10_RewriteExactlyRelativeMd ==
    mdPc = "end" =>
        /\ Len(out) = Len(src)
        /\ \A i \in 1..Len(src) : src[i].tag = "StartLink" =>
             LET u == src[i].dest_url IN
             /\ out[i].link_type = src[i].link_type
             /\ out[i].dest_url =
                  IF ~C10_Absolute(u) /\ C10_HasMdExtension(u)
                  THEN SubSeq(u, 1, Len(u) - 1) \o <<"html">>
                  ELSE u
        /\ \A i, j \in 1..Len(src) :
             (src[i].tag = "StartLink" /\ src[j].tag = "StartLink"
                /\ src[i].dest_url = src[j].dest_url)
               => out[i].dest_url = out[j].dest_url

\* The URL has a ":" with no "/" before it.
C11_ColonBeforeAnySlash(url) ==
    \E i \in 1..Len(url) : url[i] = ":" /\ \A j \in 1..(i - 1) : url[j] # "/"

\* The URL begins with "//".
C11_BeginsWithSlashSlash(url) ==
    Len(url) >= 2 /\ url[1] = "/" /\ url[2] = "/"

\* C11: is_absolute_url(u) is true exactly when u has a ":" before any "/"
\* or begins with "//"; every other URL is classified relative. Stated for
\* the destination of every link start that next() has classified.
C11_AbsoluteIffSchemeOrSlashSlash ==
    \A i \in 1..Len(out) : (mdPc \in {"links", "end"} /\ src[i].tag = "StartLink") =>
        LET u == src[i].dest_url IN
        is_absolute_url(u) <=> (C11_ColonBeforeAnySlash(u) \/ C11_BeginsWithSlashSlash(u))


(***************************************************************************)
(* The chain of markdown::render (markdown/mod.rs): AddHeadingIds, then     *)
(* TableOfContents, then RewriteRelativeLinks, pulled by push_html. One     *)
(* action is one call of the outermost next(), which calls the next() of    *)
(* the stage below it, down to the upstream. staged[i] holds what the two   *)
(* inner stages returned in call i, and out[i] what the last one returned.  *)
(***************************************************************************)
MaxChainEvents == 4

\* A mutant of ids_next: the buffer is unbuffered from the back.
ids_next_pop_back(it, buf) ==
    IF buf # <<>>
    THEN [event |-> Some(buf[Len(buf)]), iter |-> it,
          buffer |-> SubSeq(buf, 1, Len(buf) - 1)]
    ELSE IF it = <<>> THEN [event |-> None, iter |-> it, buffer |-> buf]
    ELSE IF NeedsId(Head(it))
         THEN LET r == consume_heading(Tail(it)) IN
              [event |-> Some(StartHeading(Head(it).level, Some(r.slug))),
               iter |-> r.rest, buffer |-> r.buffer]
    ELSE [event |-> Some(Head(it)), iter |-> Tail(it), buffer |-> buf]

\* AddHeadingIds::next with the upstream `it` and the buffer `buf`: the event
\* returned (None at the end) and what is left of the two.
ids_next(it, buf) ==
    IF buf # <<>>
    THEN [event |-> Some(Head(buf)), iter |-> it, buffer |-> Tail(buf)]
    ELSE IF it = <<>> THEN [event |-> None, iter |-> it, buffer |-> buf]
    ELSE IF NeedsId(Head(it))
         THEN LET r == consume_heading(Tail(it)) IN
              [event |-> Some(StartHeading(Head(it).level, Some(r.slug))),
               iter |-> r.rest, buffer |-> r.buffer]
    ELSE [event |-> Some(Head(it)), iter |-> Tail(it), buffer |-> buf]

\* The match of TableOfContents::next on the event it has pulled: the vector
\* and the flag after it, or the failed assert. The event itself is returned
\* as it is.
toc_next(e, ents, inh) ==
    IF e.tag = "StartHeading"
    THEN [panic |-> FALSE, in_heading |-> TRUE,
          entries |-> Append(ents, TocEntry(e.level, e.id, <<>>))]
    ELSE IF e.tag = "EndHeading"
    THEN [panic |-> ~inh, in_heading |-> FALSE, entries |-> ents]
    ELSE IF e.tag = "Text" /\ inh
    THEN [panic |-> FALSE, in_heading |-> inh,
          entries |-> [ents EXCEPT ![Len(ents)].title = @ \o e.text]]
    ELSE [panic |-> FALSE, in_heading |-> inh, entries |-> ents]

\* The match of RewriteRelativeLinks::next on the event it has pulled.
links_next(e) ==
    IF e.tag = "StartLink"
    THEN StartLink(e.link_type, IF is_absolute_url(e.dest_url) THEN e.dest_url
                                ELSE rewrite_url(e.dest_url))
    ELSE e

\* The positions of src that a call of AddHeadingIds::next puts in the buffer.
ChainBuffers ==
    IF buffer = <<>> /\ iter # <<>> /\ NeedsId(Head(iter))
    THEN (Pos + 1)..(Pos + Len(consume_heading(Tail(iter)).buffer))
    ELSE {}

\* A mutant of ChainNext: TableOfContents is handed the event as it was
\* before AddHeadingIds injected the ID.
ChainNextTocFirst ==
    /\ mdPc = "chain"
    /\ LET ids == ids_next(iter, buffer) IN
       /\ ids.event # None
       /\ LET e0 == IF buffer # <<>> THEN Head(buffer) ELSE Head(iter)
              toc == toc_next(e0, entries, in_heading) IN
          /\ ~toc.panic
          /\ iter' = ids.iter
          /\ buffer' = ids.buffer
          /\ buffered' = buffered \cup ChainBuffers
          /\ entries' = toc.entries
          /\ in_heading' = toc.in_heading
          /\ staged' = Append(staged, [ids |-> ids.event.some, toc |-> ids.event])
          /\ out' = Append(out, links_next(ids.event.some))
    /\ UNCHANGED <<src, mdPc, page_title>>
    /\ UNCHANGED <<poolVars, siteVars, pathVars, serveVars, watchVars, ctxVars, chanVars, ignVars>>

\* A call of next() that returns an event: AddHeadingIds returns one,
\* TableOfContents records it and RewriteRelativeLinks maps it.
ChainNext ==
    /\ mdPc = "chain"
    /\ LET ids == ids_next(iter, buffer) IN
       /\ ids.event # None
       /\ LET toc == toc_next(ids.event.some, entries, in_heading) IN
          /\ ~toc.panic
          /\ iter' = ids.iter
          /\ buffer' = ids.buffer
          /\ buffered' = buffered \cup ChainBuffers
          /\ entries' = toc.entries
          /\ in_heading' = toc.in_heading
          /\ staged' = Append(staged, [ids |-> ids.event.some, toc |-> ids.event])
          /\ out' = Append(out, links_next(ids.event.some))
    /\ UNCHANGED <<src, mdPc, page_title>>
    /\ UNCHANGED <<poolVars, siteVars, pathVars, serveVars, watchVars, ctxVars, chanVars, ignVars>>

\* A call of next() in which the assert of TableOfContents fails on the event
\* AddHeadingIds has returned: the render panics.
ChainTocPanic ==
    /\ mdPc = "chain"
    /\ LET ids == ids_next(iter, buffer) IN
       /\ ids.event # None
       /\ toc_next(ids.event.some, entries, in_heading).panic
       /\ iter' = ids.iter
       /\ buffer' = ids.buffer
       /\ buffered' = buffered \cup ChainBuffers
       /\ staged' = Append(staged, [ids |-> ids.event.some, toc |-> None])
    /\ mdPc' = "panic"
    /\ UNCHANGED <<src, entries, in_heading, out, page_title>>
    /\ UNCHANGED <<poolVars, siteVars, pathVars, serveVars, watchVars, ctxVars, chanVars, ignVars>>

\* A call of next() at the end: None goes up through the `?` of every stage.
ChainEnd ==
    /\ mdPc = "chain"
    /\ ids_next(iter, buffer).event = None
    /\ mdPc' = "end"
    /\ UNCHANGED <<src, iter, buffer, entries, in_heading, out, buffered, staged, page_title>>
    /\ UNCHANGED <<poolVars, siteVars, pathVars, serveVars, watchVars, ctxVars, chanVars, ignVars>>

\* A mutant of render_note_title: the first level-1 entry, wherever it is.
render_note_title_any(toc_entries) ==
    LET ones == {k \in 1..Len(toc_entries) : toc_entries[k].level = 1} IN
    IF ones # {}
    THEN Some(toc_entries[CHOOSE k \in ones : \A j \in ones : k <= j].title)
    ELSE None

\* render_note: the title is the title of toc_entries.first() when that entry
\* is of level 1.
render_note_title(toc_entries) ==
    IF toc_entries # <<>> /\ Head(toc_entries).level = 1
    THEN Some(Head(toc_entries).title)
    ELSE None

\* render_note after markdown::render has returned (body, toc_entries).
RenderNoteTitle ==
    /\ mdPc = "end"
    /\ page_title' = render_note_title(entries)
    /\ mdPc' = "titled"
    /\ UNCHANGED <<src, iter, buffer, entries, in_heading, out, buffered, staged>>
    /\ UNCHANGED <<poolVars, siteVars, pathVars, serveVars, watchVars, ctxVars, chanVars, ignVars>>

NextChain ==
    \/ ChainNext
    \/ ChainTocPanic
    \/ ChainEnd
    \/ RenderNoteTitle

\* The upstream events of the chain in the model.
ChainEvents ==
    { StartHeading(1, None), StartHeading(2, Some(<<"x">>)), EndHeading,
      Text(<<"H", " ">>), StartLink("Inline", <<"bar", ".", "md">>), EndLink }

\* The three adapters as render builds them, over an upstream of at most
\* MaxChainEvents events.
InitChain ==
    /\ src \in BoundedStrings(ChainEvents, MaxChainEvents)
    /\ iter = src
    /\ buffer = <<>>
    /\ entries = <<>>
    /\ in_heading = FALSE
    /\ out = <<>>
    /\ buffered = {}
    /\ staged = <<>>
    /\ page_title = None
    /\ mdPc = "chain"
    /\ PoolIdle /\ SiteIdle /\ PathIdle /\ ServeIdle /\ IgnIdle /\ CtxIdle /\ ChanIdle /\ WatchIdle

SpecChain == InitChain /\ [][NextChain]_vars

(***************************************************************************)
(* Claims about the chain.                                                 *)
(***************************************************************************)
\* What the stages have returned so far is the upstream, event by event and
\* in its order: AddHeadingIds has changed at most the id of a heading start
\* that had none, TableOfContents nothing, RewriteRelativeLinks at most the
\* destination of a link start; and every stage has returned as many events
\* as it has pulled, those still in the buffer of AddHeadingIds apart.
C23_Frame ==
    /\ Len(staged) + Len(buffer) = Len(src) - Len(iter)
    /\ Len(out) = Cardinality({i \in 1..Len(staged) : staged[i].toc # None})
    /\ \A i \in 1..Len(staged) :
         /\ \/ staged[i].ids = src[i]
            \/ /\ src[i].tag = "StartHeading" /\ src[i].id = None
               /\ staged[i].ids = StartHeading(src[i].level, staged[i].ids.id)
         /\ staged[i].toc # None => staged[i].toc = Some(staged[i].ids)
    /\ \A i \in 1..Len(out) :
         \/ out[i] = staged[i].toc.some
         \/ /\ staged[i].toc.some.tag = "StartLink"
            /\ out[i] = StartLink(staged[i].toc.some.link_type, out[i].dest_url)
    /\ mdPc = "end" => Len(out) = Len(src) /\ Len(staged) = Len(src)

\* C23 as stated: the above for every upstream sequence, so that no call of
\* next() fails to return the event it has pulled.
C23_EveryStagePassesEveryEvent ==
    C23_Frame /\ mdPc # "panic"

\* C23: the above for every upstream sequence in which no heading end comes
\* outside a heading; at such a heading end, and only there, TableOfContents
\* panics instead of returning the event.
C23_EveryStagePassesEveryEventOrTocPanics ==
    /\ C23_Frame
    /\ mdPc = "panic" =>
         /\ src[Len(staged)].tag = "EndHeading"
         /\ ~in_heading
         /\ Len(out) = Len(staged) - 1

\* C23 witness: an upstream that ends inside a heading has gone through, with
\* an ID injected, an event buffered and a destination rewritten.
C23_Witness ==
    /\ mdPc = "end"
    /\ src = << StartLink("Inline", <<"bar", ".", "md">>), EndLink,
                StartHeading(1, None), Text(<<"H", " ">>) >>
    /\ out = << StartLink("Inline", <<"bar", ".", "html">>), EndLink,
                StartHeading(1, Some(<<"h", "-">>)), Text(<<"H", " ">>) >>
    /\ buffered = {4}

\* The ID on the heading start at position i of src after AddHeadingIds: the
\* explicit ID, or else the slug consume_heading makes of the heading.
C30_EmittedId(i) ==
    IF src[i].id # None THEN src[i].id
    ELSE Some(consume_heading(SubSeq(src, i + 1, Len(src))).slug)

\* C30: in render (the upstream is a parser's output: headings closed and
\* not nested) every entry of the table of contents has an ID, which is the
\* ID on its heading start as it goes to push_html: the explicit ID of the
\* heading, or else the generated slug, which may be empty.
C30_TocEntryHasEmittedId ==
    WellFormedHeadings(src) =>
        LET starts == HeadingStarts(out) IN
        /\ Len(entries) = Len(starts)
        /\ \A k \in 1..Len(entries) :
             /\ entries[k].id # None
             /\ entries[k].id = out[starts[k]].id
             /\ entries[k].id = C30_EmittedId(starts[k])
             /\ entries[k].level = out[starts[k]].level

\* C30 witness: a heading without ID or text and a heading with an explicit
\* ID have gone through the chain.
C30_Witness ==
    /\ mdPc = "end"
    /\ src = <<StartHeading(1, None), EndHeading, StartHeading(2, Some(<<"x">>)), EndHeading>>
    /\ entries = <<TocEntry(1, Some(<<>>), <<>>), TocEntry(2, Some(<<"x">>), <<>>)>>


(***************************************************************************)
(* The shared context of the server in a debug build (serve.rs, core.rs):   *)
(* every request runs the resource handler, on any thread of the runtime;   *)
(* the handlers share one Context behind an RwLock. The handler of a note   *)
(* takes the read lock to resolve, the write lock to reload the templates   *)
(* and the read lock to render. A guard that is dropped by a panic poisons  *)
(* the lock, and unwrap() on a poisoned lock panics.                        *)
(***************************************************************************)
MaxRequests == 3

Requests == 1..MaxRequests

\* The assets of TEMPLATES, in the order read_all yields them.
TEMPLATES == <<"note.html", "style.css", "livereload.js">>
TemplateNames == {TEMPLATES[i] : i \in 1..Len(TEMPLATES)}

\* RwLock: a read lock is granted while there is no writer, the write lock
\* while there is no reader and no writer.
CanRead == ctx_lock.writer = 0
CanWrite == ctx_lock.writer = 0 /\ ctx_lock.readers = {}

\* Context::new has loaded every template before serve() wraps the context;
\* no request has reached the handler yet.
InitReload ==
    /\ ctx_lock = [readers |-> {}, writer |-> 0, poisoned |-> FALSE]
    /\ tmpls = TemplateNames
    /\ to_add = <<>>
    /\ handler = [r \in Requests |-> "start"]
    /\ observed = {}
    /\ PoolIdle /\ SiteIdle /\ PathIdle /\ ServeIdle /\ IgnIdle /\ WatchIdle /\ MdIdle /\ ChanIdle

\* state.ctx.read().unwrap(), to resolve the path
ResolveLock(r) ==
    /\ handler[r] = "start"
    /\ CanRead /\ ~ctx_lock.poisoned
    /\ ctx_lock' = [ctx_lock EXCEPT !.readers = @ \cup {r}]
    /\ handler' = [handler EXCEPT ![r] = "resolve"]
    /\ UNCHANGED <<tmpls, to_add, observed>>
    /\ UNCHANGED <<poolVars, siteVars, pathVars, serveVars, watchVars, mdVars, chanVars, ignVars>>

\* resolve_resource has returned and the guard is dropped at the end of the
\* block; only a note goes on to the locks (the other arms answer at once).
ResolveUnlock(r) ==
    /\ handler[r] = "resolve"
    /\ ctx_lock' = [ctx_lock EXCEPT !.readers = @ \ {r}]
    /\ \E note \in BOOLEAN :
         handler' = [handler EXCEPT ![r] = IF note THEN "reload" ELSE "done"]
    /\ UNCHANGED <<tmpls, to_add, observed>>
    /\ UNCHANGED <<poolVars, siteVars, pathVars, serveVars, watchVars, mdVars, chanVars, ignVars>>

\* A mutant of ReloadLock: the reload goes ahead with shared access.
ReloadLockShared(r) ==
    /\ handler[r] = "reload"
    /\ CanRead /\ ~ctx_lock.poisoned /\ to_add = <<>>
    /\ ctx_lock' = [ctx_lock EXCEPT !.readers = @ \cup {r}]
    /\ handler' = [handler EXCEPT ![r] = "clear"]
    /\ UNCHANGED <<tmpls, to_add, observed>>
    /\ UNCHANGED <<poolVars, siteVars, pathVars, serveVars, watchVars, mdVars, chanVars, ignVars>>

\* state.ctx.write().unwrap(), for reload_templates
ReloadLock(r) ==
    /\ handler[r] = "reload"
    /\ CanWrite /\ ~ctx_lock.poisoned
    /\ ctx_lock' = [ctx_lock EXCEPT !.writer = r]
    /\ handler' = [handler EXCEPT ![r] = "clear"]
    /\ UNCHANGED <<tmpls, to_add, observed>>
    /\ UNCHANGED <<poolVars, siteVars, pathVars, serveVars, watchVars, mdVars, chanVars, ignVars>>

\* reload_templates: self.tmpls.clear_templates()
ReloadClear(r) ==
    /\ handler[r] = "clear"
    /\ tmpls' = {}
    /\ to_add' = TEMPLATES
    /\ handler' = [handler EXCEPT ![r] = "add"]
    /\ UNCHANGED <<ctx_lock, observed>>
    /\ UNCHANGED <<poolVars, siteVars, pathVars, serveVars, watchVars, mdVars, chanVars, ignVars>>

\* reload_templates: the next template is read and add_template_owned-ed.
ReloadAdd(r) ==
    /\ handler[r] = "add" /\ to_add # <<>>
    /\ tmpls' = tmpls \cup {Head(to_add)}
    /\ to_add' = Tail(to_add)
    /\ UNCHANGED <<ctx_lock, handler, observed>>
    /\ UNCHANGED <<poolVars, siteVars, pathVars, serveVars, watchVars, mdVars, chanVars, ignVars>>

\* reload_templates: the next template cannot be read or has a syntax error:
\* expect() panics, which drops the write guard and poisons the lock.
ReloadAddPanic(r) ==
    /\ handler[r] = "add" /\ to_add # <<>>
    /\ ctx_lock' = [ctx_lock EXCEPT !.writer = 0, !.readers = @ \ {r},
                                    !.poisoned = TRUE]
    /\ to_add' = <<>>
    /\ handler' = [handler EXCEPT ![r] = "panicked"]
    /\ UNCHANGED <<tmpls, observed>>
    /\ UNCHANGED <<poolVars, siteVars, pathVars, serveVars, watchVars, mdVars, chanVars, ignVars>>

\* reload_templates has returned and the write guard is dropped at the end of
\* the statement.
ReloadUnlock(r) ==
    /\ handler[r] = "add" /\ to_add = <<>>
    /\ ctx_lock' = [ctx_lock EXCEPT !.writer = 0, !.readers = @ \ {r}]
    /\ handler' = [handler EXCEPT ![r] = "render"]
    /\ UNCHANGED <<tmpls, to_add, observed>>
    /\ UNCHANGED <<poolVars, siteVars, pathVars, serveVars, watchVars, mdVars, chanVars, ignVars>>

\* state.ctx.read().unwrap(), for render_note
RenderLock(r) ==
    /\ handler[r] = "render"
    /\ CanRead /\ ~ctx_lock.poisoned
    /\ ctx_lock' = [ctx_lock EXCEPT !.readers = @ \cup {r}]
    /\ handler' = [handler EXCEPT ![r] = "get_template"]
    /\ UNCHANGED <<tmpls, to_add, observed>>
    /\ UNCHANGED <<poolVars, siteVars, pathVars, serveVars, watchVars, mdVars, chanVars, ignVars>>

\* render_note: self.tmpls.get_template("note.html")
RenderGetTemplate(r) ==
    /\ handler[r] = "get_template"
    /\ observed' = observed \cup {[by |-> r, tmpls |-> tmpls]}
    /\ handler' = [handler EXCEPT ![r] = "render_to_write"]
    /\ UNCHANGED <<ctx_lock, tmpls, to_add>>
    /\ UNCHANGED <<poolVars, siteVars, pathVars, serveVars, watchVars, mdVars, chanVars, ignVars>>

\* render_note: tmpl.render_to_write, which reads the registry for what the
\* template includes; then the read guard is dropped and the handler answers.
RenderToWrite(r) ==
    /\ handler[r] = "render_to_write"
    /\ observed' = observed \cup {[by |-> r, tmpls |-> tmpls]}
    /\ ctx_lock' = [ctx_lock EXCEPT !.readers = @ \ {r}]
    /\ handler' = [handler EXCEPT ![r] = "done"]
    /\ UNCHANGED <<tmpls, to_add>>
    /\ UNCHANGED <<poolVars, siteVars, pathVars, serveVars, watchVars, mdVars, chanVars, ignVars>>

\* read() or write() on the poisoned lock returns Err and unwrap() panics:
\* the handler ends there, the guard inside the error is dropped.
LockPoisoned(r) ==
    /\ ctx_lock.poisoned
    /\ \/ handler[r] \in {"start", "render"} /\ CanRead
       \/ handler[r] = "reload" /\ CanWrite
    /\ handler' = [handler EXCEPT ![r] = "panicked"]
    /\ UNCHANGED <<ctx_lock, tmpls, to_add, observed>>
    /\ UNCHANGED <<poolVars, siteVars, pathVars, serveVars, watchVars, mdVars, chanVars, ignVars>>

NextReload ==
    \E r \in Requests :
        \/ ResolveLock(r)
        \/ ResolveUnlock(r)
        \/ ReloadLock(r)
        \/ ReloadClear(r)
        \/ ReloadAdd(r)
        \/ ReloadAddPanic(r)
        \/ ReloadUnlock(r)
        \/ RenderLock(r)
        \/ RenderGetTemplate(r)
        \/ RenderToWrite(r)
        \/ LockPoisoned(r)

SpecReload == InitReload /\ [][NextReload]_vars

\* The handlers that are inside reload_templates.
C26_Reloading == {r \in Requests : handler[r] \in {"clear", "add"}}

\* The handlers that are inside render_note, at the registry.
C26_Rendering == {r \in Requests : handler[r] \in {"get_template", "render_to_write"}}

\* C26: reload_templates runs only with exclusive access (its handler is the
\* writer, and nobody reads meanwhile), renders hold shared access, and no
\* render has read a registry other than the full one: the registry is out of
\* that state only while a reload holds the lock, or for good once a reload
\* has panicked, after which no handler gets the lock.
C26_ReaderWriterDiscipline ==
    /\ \A r \in C26_Reloading : ctx_lock.writer = r /\ ctx_lock.readers = {}
    /\ Cardinality(C26_Reloading) <= 1
    /\ \A r \in C26_Rendering : r \in ctx_lock.readers /\ ctx_lock.writer = 0
    /\ \A o \in observed : o.tmpls = TemplateNames
    /\ tmpls # TemplateNames => (C26_Reloading # {} \/ ctx_lock.poisoned)

\* C26 witness: two renders read the registry at the same time, after a
\* reload each.
C26_Witness ==
    /\ handler[1] = "render_to_write" /\ handler[2] = "render_to_write"
    /\ ctx_lock.readers = {1, 2}
    /\ observed = {[by |-> 1, tmpls |-> TemplateNames], [by |-> 2, tmpls |-> TemplateNames]}


(***************************************************************************)
(* ignore_path on its own (watch.rs): the handler's bases are the roots     *)
(* Watch::new was given, in its order; one action is one call.              *)
(***************************************************************************)
MaxBases == 2
MaxDepth == 3

\* The roots of the model: two directories side by side, and below the first
\* one a plain directory and a private one.
Roots ==
    { << <<"notes">> >>, << <<"templates">> >>,
      << <<"notes">>, <<"sub">> >>, << <<"notes">>, <<"_", "private">> >> }

\* The names of the paths of the model.
IgnoreNames ==
    { <<"notes">>, <<"templates">>, <<"sub">>, <<"_", "private">>, <<"a", ".", "md">> }

\* Watch::new with one to MaxBases roots; no event yet.
InitIgnore ==
    /\ handler_bases \in {b \in BoundedStrings(Roots, MaxBases) : b # <<>>}
    /\ event_path = None
    /\ ignored = None
    /\ PoolIdle /\ SiteIdle /\ PathIdle /\ ServeIdle /\ WatchIdle /\ MdIdle
    /\ CtxIdle /\ ChanIdle

\* ignore_path(&self.bases, p) on a path of an event.
IgnorePath ==
    /\ event_path = None
    /\ \E p \in BoundedStrings(IgnoreNames, MaxDepth) :
         /\ event_path' = Some(p)
         /\ ignored' = Some(ignore_path(handler_bases, p))
    /\ UNCHANGED handler_bases
    /\ UNCHANGED <<poolVars, siteVars, pathVars, serveVars, watchVars, mdVars, ctxVars, chanVars>>

NextIgnore == IgnorePath

SpecIgnore == InitIgnore /\ [][NextIgnore]_vars

\* The roots of bases that contain the path.
C27_Containing(bases, p) ==
    {b \in 1..Len(bases) : StripPrefix(p, bases[b]) # None}

\* A name of the path below the root is an ignored name.
C27_IgnoredBelow(root, p) ==
    \E i \in (Len(root) + 1)..Len(p) : ignore_filename(p[i])

\* C27: ignore_path(bases, p) is true exactly when p is under none of the
\* roots, or a name of p below a root that contains it is an ignored name; a
\* path equal to a root is not ignored, the names of the root never counting.
C27_IgnoredIffOutsideOrIgnoredBelowRoot ==
    event_path # None =>
        LET p == event_path.some
            in == C27_Containing(handler_bases, p)
        IN  /\ ignored.some <=>
                 \/ in = {}
                 \/ \E b \in in : C27_IgnoredBelow(handler_bases[b], p)
            /\ (\E b \in 1..Len(handler_bases) : handler_bases[b] = p) => ~ignored.some


(***************************************************************************)
(* The broadcast channel of the watch (watch.rs, serve.rs): the handler     *)
(* sends Reload on it, and every /_notify request reads it through its own  *)
(* receiver, Watch::stream. The channel keeps the last CHANNEL_CAPACITY     *)
(* values; the value at position k is the k-th one sent, counted from 0.    *)
(* A receiver that is more than the capacity behind gets Lagged(n) for the  *)
(* n values it has lost and goes on at the oldest value kept.               *)
(***************************************************************************)
CHANNEL_CAPACITY == 16
MaxSends == 17
MaxReceivers == 2

Value(k) == [lagged |-> 0, value |-> k]
Lagged(n) == [lagged |-> n, value |-> 0]

\* Watch::new, and Watch::stream for each of the requests to /_notify, which
\* read from the tail at that time on.
InitChan ==
    /\ tail = 0
    /\ send_result = None
    /\ receivers \in [1..MaxReceivers -> {[since |-> 0, next |-> 0, items |-> <<>>]}]
                        \cup {<<>>}
    /\ PoolIdle /\ SiteIdle /\ PathIdle /\ ServeIdle /\ WatchIdle /\ MdIdle
    /\ CtxIdle /\ IgnIdle

\* A mutant of ChanSend: the send waits for room, as on a bounded queue.
ChanSendBounded ==
    /\ tail < MaxSends
    /\ receivers # <<>>
    /\ \A i \in 1..Len(receivers) : tail - receivers[i].next < CHANNEL_CAPACITY
    /\ tail' = tail + 1
    /\ send_result' = Some([ok |-> TRUE, n |-> Len(receivers)])
    /\ UNCHANGED receivers
    /\ UNCHANGED <<poolVars, siteVars, pathVars, serveVars, watchVars, mdVars, ctxVars, ignVars>>

\* channel.send(Event::Reload) with a receiver: the value takes the place of
\* the oldest one and send returns Ok(the number of receivers) at once.
ChanSend ==
    /\ tail < MaxSends
    /\ receivers # <<>>
    /\ tail' = tail + 1
    /\ send_result' = Some([ok |-> TRUE, n |-> Len(receivers)])
    /\ UNCHANGED receivers
    /\ UNCHANGED <<poolVars, siteVars, pathVars, serveVars, watchVars, mdVars, ctxVars, ignVars>>

\* channel.send(Event::Reload) with no receiver: Err, which `let _ =` drops.
ChanSendNoReceiver ==
    /\ tail < MaxSends
    /\ receivers = <<>>
    /\ send_result' = Some([ok |-> FALSE, n |-> 0])
    /\ UNCHANGED <<tail, receivers>>
    /\ UNCHANGED <<poolVars, siteVars, pathVars, serveVars, watchVars, mdVars, ctxVars, ignVars>>

\* The stream of receiver i yields its next value, which notify maps to a
\* "reload" event.
ChanRecv(i) ==
    /\ receivers[i].next < tail
    /\ tail - receivers[i].next <= CHANNEL_CAPACITY
    /\ receivers' = [receivers EXCEPT ![i].next = @ + 1,
                                      ![i].items = Append(@, Value(receivers[i].next))]
    /\ UNCHANGED <<tail, send_result>>
    /\ UNCHANGED <<poolVars, siteVars, pathVars, serveVars, watchVars, mdVars, ctxVars, ignVars>>

\* The stream of receiver i, whose next value has been overwritten, yields
\* Err(Lagged(n)), which notify maps to a "reload" event as well.
ChanRecvLagged(i) ==
    /\ tail - receivers[i].next > CHANNEL_CAPACITY
    /\ LET oldest == tail - CHANNEL_CAPACITY IN
       receivers' = [receivers EXCEPT ![i].next = oldest,
                                      ![i].items = Append(@, Lagged(oldest - receivers[i].next))]
    /\ UNCHANGED <<tail, send_result>>
    /\ UNCHANGED <<poolVars, siteVars, pathVars, serveVars, watchVars, mdVars, ctxVars, ignVars>>

NextChan ==
    \/ ChanSend
    \/ ChanSendNoReceiver
    \/ \E i \in 1..Len(receivers) : ChanRecv(i) \/ ChanRecvLagged(i)

SpecChan == InitChan /\ [][NextChan]_vars


\* The values receiver i has been delivered, in the order of delivery.
C28_Delivered(i) == SelectSeq(receivers[i].items, LAMBDA x : x.lagged = 0)

\* Receiver i has lost a value.
C28_HasLagged(i) == \E k \in 1..Len(receivers[i].items) : receivers[i].items[k].lagged > 0

\* Every receiver has been delivered each value at most once and in the order
\* of sending, none from before it subscribed, and one that has never fallen
\* more than the capacity behind has been delivered every value up to where
\* it reads, whatever the others have done.
C28_AtMostOnceInOrder ==
    \A i \in 1..Len(receivers) :
        LET d == C28_Delivered(i) IN
        /\ \A a, b \in 1..Len(d) : a < b => d[a].value < d[b].value
        /\ \A a \in 1..Len(d) : receivers[i].since <= d[a].value /\ d[a].value < tail
        /\ Len(receivers[i].items) <= tail - receivers[i].since
        /\ ~C28_HasLagged(i) =>
             d = [k \in 1..(receivers[i].next - receivers[i].since) |->
                     Value(receivers[i].since + k - 1)]
        /\ C28_HasLagged(i) => Len(d) < tail - receivers[i].since

\* C28: delivery is at most once and in order for every receiver; the send
\* of the handler is never held up by a receiver, however far behind, and
\* never fails with a receiver there; and a step of one receiver, a lagging
\* one included, changes nothing for the others.
C28_FireAndForget ==
    /\ []C28_AtMostOnceInOrder
    /\ [](tail < MaxSends => ENABLED (ChanSend \/ ChanSendNoReceiver))
    /\ [](send_result # None /\ ~send_result.some.ok => tail = 0)
    /\ [][\A i, j \in 1..Len(receivers) :
            (i # j /\ receivers'[i] # receivers[i]) => receivers'[j] = receivers[j]]_vars

\* C28 witness: of two receivers from the start, one has read nothing until
\* one value more than the capacity was sent and has got Lagged(1), the other
\* has been delivered them all.
C28_Witness ==
    /\ tail = CHANNEL_CAPACITY + 1
    /\ Len(receivers) = 2
    /\ receivers[1].items = <<Lagged(1)>> /\ receivers[1].next = 1
    /\ ~C28_HasLagged(2) /\ Len(receivers[2].items) = CHANNEL_CAPACITY + 1


(***************************************************************************)
(* Claims about render_note.                                               *)
(***************************************************************************)
\* C31: the title render_note derives is there exactly when the first
\* heading of the document is of level 1, and is then that heading's text; a
\* level-1 heading that is not the first heading gives no title.
C31_TitleIffFirstHeadingLevelOne ==
    (mdPc = "titled" /\ WellFormedHeadings(src)) =>
        LET starts == HeadingStarts(src) IN
        page_title = IF starts # <<>> /\ src[starts[1]].level = 1
                THEN Some(C18_HeadingText(src, starts[1]))
                ELSE None

\* C31 witness: a document whose first heading is of level 1 and has text has
\* got its title.
C31_Witness ==
    /\ mdPc = "titled"
    /\ src = <<StartHeading(1, None), Text(<<"H", " ">>), EndHeading>>
    /\ page_title = Some(<<"H", " ">>)

====
